---------------------------- MODULE Spec2Model ----------------------------
(***************************************************************************)
(* Voice capture, transcription and field-mapping pipeline of the hospital *)
(* patient-management front end: the Recorder / SimpleRecorder components, *)
(* the admission page's mapping handlers, postProcessAdmission and         *)
(* mergeIfPresent.                                                         *)
(*                                                                         *)
(* Text is a sequence of one-character strings, so that trimming,          *)
(* digit stripping and pattern tests are computed character by character.  *)
(* A JavaScript value is a record [t, s, n, a]: t is its type tag, s its   *)
(* characters (strings), n its number (numbers), a its items (arrays).     *)
(***************************************************************************)
EXTENDS Integers, Sequences, FiniteSets, TLC

VARIABLES
  (* mergeIfPresent applied to drawn inputs *)
  mBase, mPatch, mOut, mDone,
  (* Admission page *)
  form, txAdmission, isMapping, admError, mapCalls,
  (* history: the number of outstanding mapping calls of the admission page
     that were issued before the last Clear Form *)
  staleCalls,
  (* Recorder / SimpleRecorder component *)
  component, mediaDevices, mounted, isRecording, isPaused, duration,
  isProcessing, err, pendingStart, streams, streamRef, recorders, mediaRecorderRef,
  audioChunks, stopQueue, reqs, lastDelivery,
  (* Recorder: audio-level monitoring *)
  analyserRef, animationRef, rafOrphans, startupTimeouts,
  (* The page that hosts the Recorder, and the record of the Discharge page *)
  page, formData,
  (* NurseHandover page *)
  hoFormData, txOutgoing, txIncoming, hoCalls,
  (* DoctorSlip page *)
  dsForm, dsTranscript, dsError, dsCalls,
  (* PatientFile page *)
  currentSection, sectionData, pfTranscript, pfIsLoading, pfCalls, pfLoadPending,
  (* Admission page: saving *)
  isSaving, saveCalls, navigated,
  (* normalizeDate applied to a drawn input *)
  ndDate, ndOut, ndDone,
  (* normalizeTime, normalizeGender or normalizeAadhaarNumber applied to a
     drawn input *)
  nfKind, nfIn, nfOuts,
  (* NurseHandover: the vitals of the record and overlapping outgoing mapping
     calls *)
  vitals, ovCalls, ovIssued, ovArrived

mergeVars == <<mBase, mPatch, mOut, mDone>>
admVars == <<form, txAdmission, isMapping, admError, mapCalls, staleCalls>>
recVars == <<component, mediaDevices, mounted, isRecording, isPaused, duration,
             isProcessing, err, pendingStart, streams, streamRef, recorders,
             mediaRecorderRef, audioChunks, stopQueue, reqs, lastDelivery>>
monVars == <<analyserRef, animationRef, rafOrphans, startupTimeouts>>
hostVars == <<page, formData>>
hoVars == <<hoFormData, txOutgoing, txIncoming, hoCalls>>
dsVars == <<dsForm, dsTranscript, dsError, dsCalls>>
pfVars == <<currentSection, sectionData, pfTranscript, pfIsLoading, pfCalls,
           pfLoadPending>>
saveVars == <<isSaving, saveCalls, navigated>>
dateVars == <<ndDate, ndOut, ndDone>>
fieldVars == <<nfKind, nfIn, nfOuts>>
ovVars == <<vitals, ovCalls, ovIssued, ovArrived>>
pageVars == <<hoVars, dsVars, pfVars, saveVars, dateVars, fieldVars, ovVars>>
vars == <<mergeVars, admVars, recVars, monVars, hostVars, pageVars>>

---------------------------------------------------------------------------
(* Bounds of the model *)

MaxMergeStrLen == 1

(* Microphone streams granted over the life of one component *)
MaxSessions == 2

(* Non-empty chunks the MediaRecorders of one component emit *)
MaxChunks == 2

(* Length of the text of a transcription response *)
MaxRespStrLen == 2

(* The maxDuration prop, in ticks of the one-second interval *)
maxDuration == 2

---------------------------------------------------------------------------
(* Text *)

RECURSIVE StrsUpTo(_, _)
StrsUpTo(alphabet, n) ==
  IF n = 0 THEN {<<>>}
  ELSE LET shorter == StrsUpTo(alphabet, n - 1)
       IN shorter \cup {Append(s, c) : s \in shorter, c \in alphabet}

IsSpace(c) == c \in {" ", "\t", "\n"}

RECURSIVE TrimStart(_)
TrimStart(s) ==
  IF s = <<>> THEN <<>>
  ELSE IF IsSpace(Head(s)) THEN TrimStart(Tail(s)) ELSE s

RECURSIVE TrimEnd(_)
TrimEnd(s) ==
  IF s = <<>> THEN <<>>
  ELSE IF IsSpace(s[Len(s)]) THEN TrimEnd(SubSeq(s, 1, Len(s) - 1)) ELSE s

(* String.prototype.trim *)
Trim(s) == TrimEnd(TrimStart(s))

---------------------------------------------------------------------------
(* JavaScript values *)

Undefined == [t |-> "undefined", s |-> <<>>, n |-> 0, a |-> <<>>]
Null == [t |-> "null", s |-> <<>>, n |-> 0, a |-> <<>>]
Str(s) == [t |-> "string", s |-> s, n |-> 0, a |-> <<>>]
Num(n) == [t |-> "number", s |-> <<>>, n |-> n, a |-> <<>>]
Arr(a) == [t |-> "array", s |-> <<>>, n |-> 0, a |-> a]

DigitChars == <<"0", "1", "2", "3", "4", "5", "6", "7", "8", "9">>

RECURSIVE NatToStr(_)
NatToStr(n) ==
  IF n < 10 THEN <<DigitChars[n + 1]>>
  ELSE NatToStr(n \div 10) \o <<DigitChars[(n % 10) + 1]>>

RECURSIVE Join(_)
Join(a) ==
  IF a = <<>> THEN <<>>
  ELSE IF Len(a) = 1 THEN Head(a)
  ELSE Head(a) \o <<",">> \o Join(Tail(a))

(* The template literal `${v}` *)
ToStr(v) ==
  CASE v.t = "string" -> v.s
    [] v.t = "number" -> NatToStr(v.n)
    [] v.t = "array" -> Join(v.a)
    [] v.t = "null" -> <<"n", "u", "l", "l">>
    [] OTHER -> <<"u", "n", "d", "e", "f", "i", "n", "e", "d">>

(* An object is a function from its own keys to values; reading a key it *)
(* does not have gives undefined.                                        *)
Get(o, k) == IF k \in DOMAIN o THEN o[k] ELSE Undefined

---------------------------------------------------------------------------
(* mergeIfPresent (Admission.tsx) *)

Present(v) == v # Undefined /\ v # Null /\ Trim(ToStr(v)) # <<>>

PresentNoTrim(v) == v # Undefined /\ v # Null /\ ToStr(v) # <<>>

(* The test of the forEach body: v!==undefined && v!==null && `${v}`.trim()!=="" *)
Overwrites(v) == Present(v)

mergeIfPresent(base, patch) ==
  [k \in DOMAIN base \cup {q \in DOMAIN patch : Overwrites(patch[q])} |->
     IF k \in DOMAIN patch /\ Overwrites(patch[k]) THEN patch[k] ELSE base[k]]

---------------------------------------------------------------------------
(* Values and objects the inputs are drawn from *)

MergeKeys == {"name", "age"}

MergeStrs == StrsUpTo({" ", "a"}, MaxMergeStrLen)

MergeVals ==
  {Undefined, Null, Num(0), Num(7), Arr(<<>>), Arr(<<<<" ">>>>), Arr(<<<<"a">>, <<>>>>)}
    \cup {Str(s) : s \in MergeStrs}

MergeObjects == UNION {[D -> MergeVals] : D \in SUBSET MergeKeys}

(* lastDelivery before any call of onTranscript/onTranscribe *)
NoDelivery == <<"(none)">>

EmptyObj == [k \in {} |-> Undefined]

---------------------------------------------------------------------------
(* Idle values of the parts a specification does not exercise *)

MergeIdle == mBase = EmptyObj /\ mPatch = EmptyObj /\ mOut = EmptyObj /\ mDone = FALSE

AdmIdle ==
  /\ form = EmptyObj
  /\ txAdmission = <<>>
  /\ isMapping = FALSE
  /\ admError = FALSE
  /\ mapCalls = <<>>
  /\ staleCalls = 0

RecIdle ==
  /\ component = "none"
  /\ mediaDevices = FALSE
  /\ mounted = FALSE
  /\ isRecording = FALSE
  /\ isPaused = FALSE
  /\ duration = 0
  /\ isProcessing = FALSE
  /\ err = "null"
  /\ pendingStart = 0
  /\ streams = <<>>
  /\ streamRef = 0
  /\ recorders = <<>>
  /\ mediaRecorderRef = 0
  /\ audioChunks = <<>>
  /\ stopQueue = <<>>
  /\ reqs = <<>>
  /\ lastDelivery = NoDelivery
  /\ analyserRef = FALSE
  /\ animationRef = "null"
  /\ rafOrphans = 0
  /\ startupTimeouts = 0

HostIdle == page = "none" /\ formData = EmptyObj

HoIdle ==
  /\ hoFormData = EmptyObj
  /\ txOutgoing = <<>>
  /\ txIncoming = <<>>
  /\ hoCalls = <<>>

DsIdle ==
  /\ dsForm = EmptyObj
  /\ dsTranscript = <<>>
  /\ dsError = FALSE
  /\ dsCalls = <<>>

PfIdle ==
  /\ currentSection = 0
  /\ sectionData = <<>>
  /\ pfTranscript = <<>>
  /\ pfIsLoading = FALSE
  /\ pfCalls = <<>>
  /\ pfLoadPending = FALSE

SaveIdle == isSaving = FALSE /\ saveCalls = <<>> /\ navigated = FALSE

DateIdle == ndDate = Undefined /\ ndOut = <<>> /\ ndDone = FALSE

FieldIdle == nfKind = "none" /\ nfIn = Undefined /\ nfOuts = <<>>

(* initialData.vitals of NurseHandover *)
initialVitals == [bp |-> <<>>, hr |-> <<>>, temp |-> <<>>, spo2 |-> <<>>]

OvIdle ==
  vitals = initialVitals /\ ovCalls = {} /\ ovIssued = 0 /\ ovArrived = <<>>

PagesIdle ==
  HoIdle /\ DsIdle /\ PfIdle /\ SaveIdle /\ DateIdle /\ FieldIdle /\ OvIdle

---------------------------------------------------------------------------
(* SpecMerge: mergeIfPresent applied to every drawn base and patch *)

MergeInit ==
  /\ mBase \in MergeObjects
  /\ mPatch \in MergeObjects
  /\ mOut = EmptyObj
  /\ mDone = FALSE
  /\ AdmIdle
  /\ RecIdle
  /\ HostIdle
  /\ PagesIdle

MergeApply ==
  /\ ~mDone
  /\ mOut' = mergeIfPresent(mBase, mPatch)
  /\ mDone' = TRUE
  /\ UNCHANGED <<mBase, mPatch, admVars, recVars, monVars, hostVars, pageVars>>

MergeNext == MergeApply

SpecMerge == MergeInit /\ [][MergeNext]_vars

(* C1: after mergeIfPresent(base, patch), for every key k of patch the result
   holds base[k] when patch[k] is undefined, null, or a value whose string
   coercion trims to the empty string, and holds patch[k] otherwise; every key
   of base that patch does not have keeps base's value. *)
C1_MergeIfPresent ==
  mDone =>
    /\ \A k \in DOMAIN mPatch :
         IF \/ mPatch[k] = Undefined
            \/ mPatch[k] = Null
            \/ Trim(ToStr(mPatch[k])) = <<>>
         THEN Get(mOut, k) = Get(mBase, k)
         ELSE Get(mOut, k) = mPatch[k]
    /\ \A k \in DOMAIN mBase \ DOMAIN mPatch : Get(mOut, k) = mBase[k]

(* A merge where one patch key is whitespace-only over a populated base value
   and another patch key carries a value that replaces a populated base value *)
C1_Witness ==
  /\ mDone
  /\ \E k \in DOMAIN mPatch \cap DOMAIN mBase :
       /\ mPatch[k] = Str(<<" ">>)
       /\ mBase[k] = Str(<<"a">>)
       /\ mOut[k] = Str(<<"a">>)
  /\ \E k \in DOMAIN mPatch \cap DOMAIN mBase :
       /\ mPatch[k] = Num(0)
       /\ mBase[k] = Str(<<"a">>)
       /\ mOut[k] = Num(0)

---------------------------------------------------------------------------
(* Text helpers of the normalizers *)

IsDigit(c) == c \in {"0", "1", "2", "3", "4", "5", "6", "7", "8", "9"}

UpperChars == <<"A", "B", "C", "D", "E", "F", "G", "H", "I", "J", "K", "L", "M",
                "N", "O", "P", "Q", "R", "S", "T", "U", "V", "W", "X", "Y", "Z">>
LowerChars == <<"a", "b", "c", "d", "e", "f", "g", "h", "i", "j", "k", "l", "m",
                "n", "o", "p", "q", "r", "s", "t", "u", "v", "w", "x", "y", "z">>

LowerChar(c) ==
  IF \E i \in 1..26 : UpperChars[i] = c
  THEN LowerChars[CHOOSE i \in 1..26 : UpperChars[i] = c]
  ELSE c

UpperChar(c) ==
  IF \E i \in 1..26 : LowerChars[i] = c
  THEN UpperChars[CHOOSE i \in 1..26 : LowerChars[i] = c]
  ELSE c

(* String.prototype.toLowerCase *)
ToLower(s) == [i \in 1..Len(s) |-> LowerChar(s[i])]

(* String.prototype.includes *)
Includes(s, sub) ==
  \E i \in 0..(Len(s) - Len(sub)) : SubSeq(s, i + 1, i + Len(sub)) = sub

(* s.replace(/\D/g, '') *)
RECURSIVE OnlyDigits(_)
OnlyDigits(s) ==
  IF s = <<>> THEN <<>>
  ELSE IF IsDigit(Head(s)) THEN <<Head(s)>> \o OnlyDigits(Tail(s))
  ELSE OnlyDigits(Tail(s))

(* s.replace(/\s/g, '') *)
RECURSIVE NoSpaces(_)
NoSpaces(s) ==
  IF s = <<>> THEN <<>>
  ELSE IF IsSpace(Head(s)) THEN NoSpaces(Tail(s))
  ELSE <<Head(s)>> \o NoSpaces(Tail(s))

DigitVal(c) == (CHOOSE i \in 1..10 : DigitChars[i] = c) - 1

(* parseInt(s, 10) of a string of digits only *)
RECURSIVE DigitsToNat(_)
DigitsToNat(s) ==
  IF s = <<>> THEN 0
  ELSE 10 * DigitsToNat(SubSeq(s, 1, Len(s) - 1)) + DigitVal(s[Len(s)])

(* s.padStart(2, '0') *)
PadStart2(s) == IF Len(s) < 2 THEN <<"0">> \o s ELSE s

(* s.substring(0, n) *)
Substring0(s, n) == SubSeq(s, 1, IF Len(s) < n THEN Len(s) ELSE n)

(* The number of digits of s from position i on, up to the first non-digit *)
RECURSIVE DigitRun(_, _)
DigitRun(s, i) ==
  IF i > Len(s) \/ ~IsDigit(s[i]) THEN 0 ELSE 1 + DigitRun(s, i + 1)

(* The number of white-space characters of s from position i on *)
RECURSIVE SpaceRun(_, _)
SpaceRun(s, i) ==
  IF i > Len(s) \/ ~IsSpace(s[i]) THEN 0 ELSE 1 + SpaceRun(s, i + 1)

(* JavaScript truthiness of a value: !v is ~Truthy(v) *)
Truthy(v) ==
  CASE v.t = "string" -> v.s # <<>>
    [] v.t = "number" -> v.n # 0
    [] v.t = "array" -> TRUE
    [] OTHER -> FALSE

---------------------------------------------------------------------------
(* The clock read by new Date(): the current day and minute, as text *)

TodayStr == <<"2", "0", "2", "5", "-", "0", "1", "-", "0", "9">>
TomorrowStr == <<"2", "0", "2", "5", "-", "0", "1", "-", "1", "0">>
YesterdayStr == <<"2", "0", "2", "5", "-", "0", "1", "-", "0", "8">>
NowStr == <<"1", "4", ":", "3", "0">>

---------------------------------------------------------------------------
(* postProcessAdmission.ts: the normalizers.  Each takes a JavaScript value
   and gives text (or a number); a method call on a value that has no such
   method is a TypeError, reported by the Throws operators below. *)

(* normalizeGender with "male" tested first and alone *)
maleFirst(gender) ==
  IF ~Truthy(gender) THEN <<"o", "t", "h", "e", "r">>
  ELSE LET normalized == Trim(ToLower(gender.s))
       IN IF Includes(normalized, <<"m", "a", "l", "e">>)
          THEN <<"m", "a", "l", "e">>
          ELSE IF Includes(normalized, <<"f", "e", "m", "a", "l", "e">>)
          THEN <<"f", "e", "m", "a", "l", "e">>
          ELSE <<"o", "t", "h", "e", "r">>

normalizeGender(gender) ==
  IF ~Truthy(gender) THEN <<"o", "t", "h", "e", "r">>
  ELSE LET normalized == Trim(ToLower(gender.s))
       IN IF Includes(normalized, <<"m", "a", "l", "e">>)
             /\ ~Includes(normalized, <<"f", "e", "m", "a", "l", "e">>)
          THEN <<"m", "a", "l", "e">>
          ELSE IF Includes(normalized, <<"f", "e", "m", "a", "l", "e">>)
          THEN <<"f", "e", "m", "a", "l", "e">>
          ELSE <<"o", "t", "h", "e", "r">>

normalizeAge(age) ==
  IF age.t = "number" THEN age.n
  ELSE IF age.t = "string" THEN DigitsToNat(OnlyDigits(age.s))
  ELSE 0

normalizeMobileNumber(mobile) ==
  IF ~Truthy(mobile) THEN <<>>
  ELSE Substring0(OnlyDigits(mobile.s), 10)

(* normalizeAadhaarNumber without the grouping of twelve digits *)
aadhaarUngrouped(aadhaar) ==
  IF ~Truthy(aadhaar) THEN <<>> ELSE OnlyDigits(aadhaar.s)

normalizeAadhaarNumber(aadhaar) ==
  IF ~Truthy(aadhaar) THEN <<>>
  ELSE LET cleaned == OnlyDigits(aadhaar.s)
       IN IF Len(cleaned) = 12
          THEN SubSeq(cleaned, 1, 4) \o <<" ">> \o SubSeq(cleaned, 5, 8)
                 \o <<" ">> \o SubSeq(cleaned, 9, 12)
          ELSE cleaned

IsDateSep(c) == c \in {"-", "/"}

(* /^\d{4}-\d{2}-\d{2}$/ *)
IsIsoDate(s) ==
  /\ Len(s) = 10
  /\ \A i \in {1, 2, 3, 4, 6, 7, 9, 10} : IsDigit(s[i])
  /\ s[5] = "-"
  /\ s[8] = "-"

(* /^\d{1,2}[-/]\d{1,2}[-/]\d{2,4}$/ *)
IsDmyDate(s) ==
  LET d == DigitRun(s, 1)
      m == DigitRun(s, d + 2)
      y == DigitRun(s, d + m + 3)
  IN /\ d \in 1..2
     /\ Len(s) >= d + 1 /\ IsDateSep(s[d + 1])
     /\ m \in 1..2
     /\ Len(s) >= d + m + 2 /\ IsDateSep(s[d + m + 2])
     /\ y \in 2..4
     /\ Len(s) = d + m + y + 2

normalizeDate(date) ==
  IF ~Truthy(date) THEN TodayStr
  ELSE
    LET dateStr == Trim(ToStr(date))
        lower == ToLower(dateStr)
    IN IF IsIsoDate(dateStr) THEN dateStr
       ELSE IF IsDmyDate(dateStr)
       THEN LET d == DigitRun(dateStr, 1)
                m == DigitRun(dateStr, d + 2)
                day == PadStart2(SubSeq(dateStr, 1, d))
                month == PadStart2(SubSeq(dateStr, d + 2, d + m + 1))
                part3 == SubSeq(dateStr, d + m + 3, Len(dateStr))
                year == IF Len(part3) = 2 THEN <<"2", "0">> \o part3 ELSE part3
            IN year \o <<"-">> \o month \o <<"-">> \o day
       ELSE IF Includes(lower, <<"t", "o", "d", "a", "y">>) THEN TodayStr
       ELSE IF Includes(lower, <<"t", "o", "m", "o", "r", "r", "o", "w">>)
       THEN TomorrowStr
       ELSE IF Includes(lower, <<"y", "e", "s", "t", "e", "r", "d", "a", "y">>)
       THEN YesterdayStr
       ELSE TodayStr

(* /^\d{1,2}:\d{2}$/ *)
IsPlainTime(s) ==
  LET h == DigitRun(s, 1)
  IN /\ h \in 1..2
     /\ Len(s) = h + 3
     /\ s[h + 1] = ":"
     /\ DigitRun(s, h + 2) = 2

(* /^\d{1,2}:\d{2}\s*(am|pm)$/i with the test failing on every text *)
NeverAmPm(s) == FALSE

(* /^\d{1,2}:\d{2}\s*(am|pm)$/i *)
IsAmPmTime(s) ==
  LET h == DigitRun(s, 1)
      sp == SpaceRun(s, h + 4)
  IN /\ h \in 1..2
     /\ Len(s) >= h + 3
     /\ s[h + 1] = ":"
     /\ IsDigit(s[h + 2]) /\ IsDigit(s[h + 3])
     /\ Len(s) = h + 3 + sp + 2
     /\ ToLower(SubSeq(s, h + 4 + sp, Len(s))) \in {<<"a", "m">>, <<"p", "m">>}

normalizeTime(time) ==
  IF ~Truthy(time) THEN NowStr
  ELSE
    LET timeStr == Trim(ToStr(time))
    IN IF IsPlainTime(timeStr)
       THEN LET h == DigitRun(timeStr, 1)
            IN PadStart2(SubSeq(timeStr, 1, h)) \o <<":">>
                 \o SubSeq(timeStr, h + 2, Len(timeStr))
       ELSE IF IsAmPmTime(timeStr)
       THEN LET h == DigitRun(timeStr, 1)
                hours0 == DigitsToNat(SubSeq(timeStr, 1, h))
                minutes == SubSeq(timeStr, h + 2, h + 3)
                period == ToLower(SubSeq(timeStr, Len(timeStr) - 1, Len(timeStr)))
                hours == IF period = <<"p", "m">> /\ hours0 # 12 THEN hours0 + 12
                         ELSE IF period = <<"a", "m">> /\ hours0 = 12 THEN 0
                         ELSE hours0
            IN PadStart2(NatToStr(hours)) \o <<":">> \o minutes
       ELSE NowStr

(* rawData.f?.trim() || '' *)
TrimOrEmpty(v) == IF v.t = "string" THEN Trim(v.s) ELSE <<>>

(* A method of String called on a value that is not a string: f?.trim() is
   guarded against undefined and null only *)
TrimThrows(v) == v.t \in {"number", "array"}

(* normalizeGender, normalizeMobileNumber and normalizeAadhaarNumber return
   early on a falsy value and call a String method on any other *)
StringMethodThrows(v) == Truthy(v) /\ v.t # "string"

TrimmedFields ==
  {"name", "admitted_under_doctor", "attender_name", "relation", "ward",
   "bed_number", "reason"}

postProcessThrows(rawData) ==
  \/ \E f \in TrimmedFields : TrimThrows(Get(rawData, f))
  \/ \E f \in {"gender", "mobile_no", "attender_mobile_no", "aadhaar_number"} :
       StringMethodThrows(Get(rawData, f))

(* The processed record, without patient_id, created_at and updated_at (a
   random id and two clock readings that no caller reads) *)
postProcessAdmission(rawData) ==
  [name |-> TrimOrEmpty(Get(rawData, "name")),
   age |-> normalizeAge(Get(rawData, "age")),
   gender |-> normalizeGender(Get(rawData, "gender")),
   mobile_no |-> normalizeMobileNumber(Get(rawData, "mobile_no")),
   admitted_under_doctor |-> TrimOrEmpty(Get(rawData, "admitted_under_doctor")),
   attender_name |-> TrimOrEmpty(Get(rawData, "attender_name")),
   relation |-> TrimOrEmpty(Get(rawData, "relation")),
   attender_mobile_no |-> normalizeMobileNumber(Get(rawData, "attender_mobile_no")),
   aadhaar_number |-> normalizeAadhaarNumber(Get(rawData, "aadhaar_number")),
   admission_date |-> normalizeDate(Get(rawData, "admission_date")),
   admission_time |-> normalizeTime(Get(rawData, "admission_time")),
   ward |-> TrimOrEmpty(Get(rawData, "ward")),
   bed_number |-> TrimOrEmpty(Get(rawData, "bed_number")),
   reason |-> TrimOrEmpty(Get(rawData, "reason")),
   status |-> <<"a", "d", "m", "i", "t", "t", "e", "d">>]

---------------------------------------------------------------------------
(* Admission.tsx: the form and the mapping handler *)

FormFields ==
  {"name", "age", "gender", "mobile_no", "aadhaar_number", "admission_date",
   "admission_time", "reason"}

T_Male == <<"M", "a", "l", "e">>
T_Female == <<"F", "e", "m", "a", "l", "e">>
T_Other == <<"O", "t", "h", "e", "r">>

emptyForm ==
  [f \in FormFields |-> IF f = "gender" THEN Str(T_Male) ELSE Str(<<>>)]

(* processed.gender[0].toUpperCase() + processed.gender.slice(1) *)
Capitalize(s) == <<UpperChar(s[1])>> \o Tail(s)

(* The object literal handed to mergeIfPresent inside setForm(prev => ...) *)
AdmissionPatch(prev, processed) ==
  [name |-> Str(processed.name),
   age |-> IF processed.age # 0 THEN Str(NatToStr(processed.age)) ELSE prev.age,
   gender |-> IF processed.gender # <<>>
              THEN Str(Capitalize(processed.gender)) ELSE prev.gender,
   mobile_no |-> Str(processed.mobile_no),
   aadhaar_number |-> Str(processed.aadhaar_number),
   admission_date |-> Str(processed.admission_date),
   admission_time |-> Str(processed.admission_time),
   reason |-> Str(processed.reason)]

(* Text the user types and the mapping service returns *)
T_Asha == <<"A", "s", "h", "a">>
T_Ravi == <<"R", "a", "v", "i">>
T_30 == <<"3", "0">>
T_45years == <<"4", "5", " ", "y", "e", "a", "r", "s">>
T_Mobile == <<"9", "8", "7", "6", "5", "4", "3", "2", "1", "0">>
T_MobileRaw == <<"9", "8", "7", "6", "5", "-", "4", "3", "2", "1", "0">>
T_AadhaarRaw == <<"1", "2", "3", "4", "5", "6", "7", "8", "9", "0", "1", "2">>
T_IsoDate == <<"2", "0", "2", "4", "-", "1", "2", "-", "2", "5">>
T_DmyDate == <<"2", "5", "/", "1", "2", "/", "2", "4">>
T_Time == <<"2", "1", ":", "3", "0">>
T_TimePm == <<"9", ":", "3", "0", " ", "p", "m">>
T_Fever == <<"f", "e", "v", "e", "r">>
T_female == <<"f", "e", "m", "a", "l", "e">>

(* What the user can put into each input (the Aadhaar number has no input) *)
UserValues(f) ==
  CASE f = "name" -> {Str(<<>>), Str(T_Asha)}
    [] f = "age" -> {Str(<<>>), Str(T_30)}
    [] f = "gender" -> {Str(T_Male), Str(T_Female), Str(T_Other)}
    [] f = "mobile_no" -> {Str(T_Mobile)}
    [] f = "admission_date" -> {Str(T_IsoDate), Str(TodayStr)}
    [] f = "admission_time" -> {Str(T_Time), Str(NowStr)}
    [] f = "reason" -> {Str(T_Fever)}
    [] OTHER -> {}

(* The inputs inside the block that is disabled while isMapping *)
LockedWhileMapping == {"name", "age", "gender", "mobile_no"}

Obj1(k, v) == [x \in {k} |-> v]

(* Bodies of /api/map/admission responses: objects with any subset of keys *)
MapBodies ==
  { EmptyObj,
    Obj1("name", Str(T_Ravi)),
    [f \in FormFields |-> Null],
    [name |-> Str(<<" ">>), reason |-> Str(<<>>)],
    [name |-> Str(T_Ravi), age |-> Str(T_45years), gender |-> Str(T_female),
     mobile_no |-> Str(T_MobileRaw), aadhaar_number |-> Str(T_AadhaarRaw),
     admission_date |-> Str(T_DmyDate), admission_time |-> Str(T_TimePm),
     reason |-> Str(T_Fever)],
    [age |-> Num(7), gender |-> Str(T_Male)],
    Obj1("name", Num(7)) }

(* What comes back for a mapping call: a JSON body, the JSON null, or a
   failure of postJSON (network error, non-2xx status, unparsable body) *)
MapReplies ==
  {[kind |-> "object", body |-> b] : b \in MapBodies}
    \cup {[kind |-> "null", body |-> EmptyObj], [kind |-> "error", body |-> EmptyObj]}

NoReply == [kind |-> "none", body |-> EmptyObj]

Transcripts == {<<>>, <<" ">>, <<"a">>}

AdmInit ==
  /\ form = emptyForm
  /\ txAdmission = <<>>
  /\ isMapping = FALSE
  /\ admError = FALSE
  /\ mapCalls = <<>>
  /\ staleCalls = 0
  /\ page = "Admission"
  /\ formData = EmptyObj
  /\ MergeIdle
  /\ RecIdle
  /\ PagesIdle

(* onChange of an input, and the Today / Now quick buttons *)
AdmEditField(f, v) ==
  /\ f \in LockedWhileMapping => ~isMapping
  /\ form' = [form EXCEPT ![f] = v]
  /\ UNCHANGED <<txAdmission, isMapping, admError, mapCalls, staleCalls, mergeVars, recVars, monVars, hostVars, pageVars>>

(* setTxAdmission: typing in the transcript box, or a transcript delivered
   by the Recorder *)
AdmSetTranscript(t) ==
  /\ txAdmission' = t
  /\ UNCHANGED <<form, isMapping, admError, mapCalls, staleCalls, mergeVars, recVars, monVars, hostVars, pageVars>>

(* mapAdmissionFromTranscript up to its await: the Auto-Map button is shown
   for a non-blank transcript and disabled while isMapping *)
AdmMapClick ==
  /\ Trim(txAdmission) # <<>>
  /\ ~isMapping
  /\ ~isSaving
  /\ isMapping' = TRUE
  /\ admError' = FALSE
  /\ mapCalls' = Append(mapCalls, NoReply)
  /\ UNCHANGED <<form, txAdmission, staleCalls, mergeVars, recVars, monVars, hostVars,
                 pageVars>>

(* The mapping service answers the oldest call that has no answer yet *)
AdmServerReply(r) ==
  /\ \E i \in 1..Len(mapCalls) :
       /\ mapCalls[i] = NoReply
       /\ \A j \in 1..(i - 1) : mapCalls[j] # NoReply
       /\ mapCalls' = [mapCalls EXCEPT ![i] = r]
  /\ UNCHANGED <<form, txAdmission, isMapping, admError, staleCalls, mergeVars,
                 recVars, monVars, hostVars, pageVars>>

MapThrows(r) ==
  \/ r.kind \in {"null", "error"}
  \/ r.kind = "object" /\ postProcessThrows(r.body)

(* mapAdmissionFromTranscript after its await: postProcessAdmission, then
   setForm(prev => mergeIfPresent(prev, patch)), or the catch block *)
AdmMapSettle ==
  /\ mapCalls # <<>>
  /\ Head(mapCalls) # NoReply
  /\ LET r == Head(mapCalls)
     IN IF MapThrows(r)
        THEN /\ admError' = TRUE
             /\ form' = form
        ELSE /\ admError' = admError
             /\ form' = mergeIfPresent(form,
                          AdmissionPatch(form, postProcessAdmission(r.body)))
  /\ isMapping' = FALSE
  /\ mapCalls' = Tail(mapCalls)
  /\ staleCalls' = IF staleCalls > 0 THEN staleCalls - 1 ELSE 0
  /\ UNCHANGED <<txAdmission, mergeVars, recVars, monVars, hostVars, pageVars>>

(* clearForm *)
AdmClearForm ==
  /\ ~isSaving
  /\ form' = emptyForm
  /\ txAdmission' = <<>>
  /\ staleCalls' = Len(mapCalls)
  /\ UNCHANGED <<isMapping, admError, mapCalls, mergeVars, recVars, monVars, hostVars, pageVars>>

AdmNext ==
  \/ \E f \in FormFields : \E v \in UserValues(f) : AdmEditField(f, v)
  \/ \E t \in Transcripts : AdmSetTranscript(t)
  \/ AdmMapClick
  \/ \E r \in MapReplies : AdmServerReply(r)
  \/ AdmMapSettle
  \/ AdmClearForm

SpecAdmission == AdmInit /\ [][AdmNext]_vars

(* C29: Clear Form on the admission page leaves the form equal to emptyForm
   and the transcript empty, and the response of a mapping call that was
   issued before the clear does not repopulate the cleared form: while the
   form is still empty, the handler of such a call leaves it empty *)
C29_ClearFormStaysCleared ==
  [][ /\ AdmClearForm => (form' = emptyForm /\ txAdmission' = <<>>)
      /\ (AdmMapSettle /\ staleCalls > 0 /\ form = emptyForm) =>
             form' = emptyForm ]_vars

(* The part that holds: the step of Clear Form itself *)
C29_ClearFormClears ==
  [][ AdmClearForm => (form' = emptyForm /\ txAdmission' = <<>>) ]_vars

(* The mapping response carried no value for field f: key absent, null or
   empty *)
NoValue(r, f) ==
  \/ r.kind # "object"
  \/ Get(r.body, f) \in {Undefined, Null, Str(<<>>)}

(* C2: when an admission mapping call completes, every form field for which
   the response carried no value (key absent, null or empty) still holds the
   value it had before the call. *)
C2_AbsentFieldsKept ==
  [][ (mapCalls # <<>> /\ Head(mapCalls) # NoReply /\ mapCalls' = Tail(mapCalls))
        => \A f \in FormFields :
             NoValue(Head(mapCalls), f) => form'[f] = form[f] ]_vars

---------------------------------------------------------------------------
(* Recorder (components/Recorder.tsx) and SimpleRecorder: state and helpers

   streams[i]    "live" or "ended": the tracks of the i-th stream that
                 getUserMedia granted
   recorders[i]  the MediaRecorder built on stream i: its state ("none" when
                 the constructor was never reached or threw), the number of
                 non-empty chunks it has emitted, its mimeType
   streamRef, mediaRecorderRef   indexes into them, 0 for null
   audioChunks   audioChunksRef.current: chunks <<recorder, k>>
   stopQueue     recorders whose final dataavailable + stop events are queued
   reqs          the transcription requests in flight, and the failed ones
                 whose timeout is still armed
   pendingStart  calls of getUserMedia that have not settled
   err           the error message shown, by class; "null" for none
   lastDelivery  the text of the last onTranscript/onTranscribe call, or
                 NoDelivery *)

enableTranscription == TRUE

NegotiatedMime == "audio/webm;codecs=opus"

ErrTimedOut == "Transcription timed out (120s)"
ErrNetwork == "Network error: Cannot connect to backend"
ErrTranscription == "Transcription error"
ErrEmptyAudio == "Transcription error: Audio blob is empty - no audio was recorded"
ErrSimpleEmpty == "No audio recorded"
ErrSimpleNoTranscript == "No transcript received from server"
ErrHttp == "Transcription failed (status)"
ErrDenied == "Microphone access denied"
ErrNotFound == "No microphone found"
ErrNotSupported == "Microphone not supported in this browser"
ErrStartOther == "Failed to start recording"
ErrSimple == "SimpleRecorder error"

(* err.includes('timed out'): the condition that shows the Retry button *)
RetryOffered == err = ErrTimedOut

(* A state setter called after unmount changes nothing *)
St(cur, new) == IF mounted THEN new ELSE cur

ActiveStates == {"recording", "paused"}

NoRecorder == [state |-> "none", emitted |-> 0, mimeType |-> ""]

Media == [streams |-> streams, recorders |-> recorders, stopQueue |-> stopQueue]

(* MediaRecorder.stop(): the recorder becomes inactive at once and a task is
   queued that fires dataavailable and then stop *)
StopRecorder(M, r) ==
  [M EXCEPT !.recorders[r].state = "inactive",
            !.stopQueue = Append(M.stopQueue, r)]

(* track.stop() on every track of stream sid: a MediaRecorder still active
   on a stream whose tracks have all ended stops by itself *)
EndTracks(M, sid) ==
  IF sid = 0 THEN M
  ELSE LET M1 == [M EXCEPT !.streams[sid] = "ended"]
       IN IF M.recorders[sid].state \in ActiveStates
          THEN StopRecorder(M1, sid)
          ELSE M1

SetMedia(M) ==
  /\ streams' = M.streams
  /\ recorders' = M.recorders
  /\ stopQueue' = M.stopQueue

(* new Blob(chunks, {type}) *)
BlobOf(chunks, type) == [chunks |-> chunks, type |-> type]

(* blob.size: every stored chunk is non-empty *)
BlobSize(blob) == Len(blob.chunks)

NoReply2 == [kind |-> "none", status |-> 0, parsable |-> FALSE, isObj |-> FALSE,
             v |-> Undefined, o |-> EmptyObj]

(* The section of the Discharge page whose Recorder is followed *)
section == "diagnosis"

(* The onTranscript / onTranscribe props given by the hosting page:
   setTxAdmission on Admission, handleTranscript(section.key) on Discharge *)
OnTranscript(text) ==
  /\ txAdmission' = IF page = "Admission" THEN text ELSE txAdmission
  /\ formData' = IF page = "Discharge"
                 THEN [formData EXCEPT ![section] = text]
                 ELSE formData

Deliver(text) == lastDelivery' = text /\ OnTranscript(text)

(* No callback of the hosting page is called *)
NoDeliver == UNCHANGED <<lastDelivery, txAdmission, formData>>

NewRequest(blob, withTimer) ==
  [blob |-> blob, state |-> "inflight", timer |-> withTimer, reply |-> NoReply2]

(* What is left of the requests: those in flight and those whose timeout is
   still armed *)
Forget(rs) == SelectSeq(rs, LAMBDA q : q.state = "inflight" \/ q.timer)

NeverEmpty(blob) == FALSE

(* audioBlob.size === 0 *)
IsEmptyBlob(blob) == BlobSize(blob) = 0

(* processAudio from its first line to the await of fetch: an empty blob
   throws before any request is made and runs catch and finally at once *)
ProcessAudioStart(blob) ==
  IF IsEmptyBlob(blob)
  THEN /\ err' = St(err, ErrEmptyAudio)
       /\ isProcessing' = St(isProcessing, FALSE)
       /\ Deliver(<<>>)
       /\ reqs' = reqs
  ELSE IF ~enableTranscription
  THEN /\ err' = St(err, "null")
       /\ isProcessing' = St(isProcessing, FALSE)
       /\ Deliver(<<"p", "l", "a", "c", "e", "h", "o", "l", "d", "e", "r">>)
       /\ reqs' = reqs
  ELSE /\ err' = St(err, "null")
       /\ isProcessing' = St(isProcessing, TRUE)
       /\ reqs' = Append(reqs, NewRequest(blob, TRUE))
       /\ NoDeliver

(* The continuation of an awaited fetch runs as soon as the response is there:
   no other handler runs between the arrival of a response and Settle *)
Quiet == \A i \in 1..Len(reqs) : reqs[i].reply = NoReply2

(* The non-empty chunks emitted so far by all MediaRecorders *)
RECURSIVE SumEmitted(_)
SumEmitted(rs) ==
  IF rs = <<>> THEN 0 ELSE Head(rs).emitted + SumEmitted(Tail(rs))

MoreChunks == SumEmitted(recorders) < MaxChunks

---------------------------------------------------------------------------
(* Recorder: audio-level monitoring.  animationRef is "null", "pending" (the
   id of a frame callback that is still scheduled) or "stale" (the id of one
   that was cancelled); rafOrphans counts scheduled frame callbacks whose id
   animationRef no longer holds; startupTimeouts counts the armed 100 ms
   timeouts of startAudioRecording *)
Mon == [ref |-> animationRef, orphans |-> rafOrphans]

SetMon(m) ==
  /\ animationRef' = m.ref
  /\ rafOrphans' = m.orphans

(* The test of monitorAudioLevel, on the isRecording and isPaused of the
   render that created the function *)
StartsNothing(closureRecording, closurePaused) == TRUE

MonitorRuns(closureRecording, closurePaused) ==
  analyserRef /\ closureRecording /\ ~closurePaused

(* animationRef.current = requestAnimationFrame(monitorAudioLevel) *)
RequestFrame(m) ==
  [ref |-> "pending",
   orphans |-> m.orphans + (IF m.ref = "pending" THEN 1 ELSE 0)]

monitorAudioLevel(m, closureRecording, closurePaused) ==
  IF MonitorRuns(closureRecording, closurePaused) THEN RequestFrame(m) ELSE m

(* if (animationRef.current) cancelAnimationFrame(animationRef.current) *)
CancelFrame(m) == IF m.ref = "pending" THEN [m EXCEPT !.ref = "stale"] ELSE m

(* The monitoring effect re-run for new isRecording and isPaused: the cleanup
   of the previous run, then the body *)
MonitorEffect(m, recording, paused) ==
  LET cleaned == CancelFrame(m)
  IN IF recording /\ ~paused
     THEN monitorAudioLevel(cleaned, recording, paused)
     ELSE IF cleaned.ref # "null"
          THEN [CancelFrame(cleaned) EXCEPT !.ref = "null"]
          ELSE cleaned

(* React re-runs the effect after a render in which isRecording or isPaused
   changed *)
MonitorAfterRender ==
  SetMon(IF isRecording' # isRecording \/ isPaused' # isPaused
         THEN MonitorEffect(Mon, isRecording', isPaused')
         ELSE Mon)

(* A scheduled frame callback runs: the monitorAudioLevel of a render with
   isRecording true and isPaused false samples and requests the next frame *)
RafFire ==
  /\ component = "Recorder"
  /\ Quiet
  /\ \/ /\ animationRef = "pending"
        /\ SetMon(monitorAudioLevel([Mon EXCEPT !.ref = "stale"], TRUE, FALSE))
     \/ /\ rafOrphans > 0
        /\ SetMon(monitorAudioLevel([Mon EXCEPT !.orphans = @ - 1], TRUE, FALSE))
  /\ UNCHANGED <<analyserRef, startupTimeouts, recVars, mergeVars, admVars, hostVars, pageVars>>

(* The 100 ms timeout of startAudioRecording runs: monitorAudioLevel of the
   render in which Record was clicked, where isRecording was false *)
StartupTimeoutFire ==
  /\ component = "Recorder"
  /\ Quiet
  /\ startupTimeouts > 0
  /\ startupTimeouts' = startupTimeouts - 1
  /\ SetMon(IF analyserRef THEN monitorAudioLevel(Mon, FALSE, FALSE) ELSE Mon)
  /\ UNCHANGED <<analyserRef, recVars, mergeVars, admVars, hostVars, pageVars>>

(* Recorder: the actions *)

RecInit ==
  /\ component \in {"Recorder", "SimpleRecorder"}
  /\ mediaDevices \in BOOLEAN
  /\ mounted = TRUE
  /\ isRecording = FALSE
  /\ isPaused = FALSE
  /\ duration = 0
  /\ isProcessing = FALSE
  /\ err = "null"
  /\ pendingStart = 0
  /\ streams = <<>>
  /\ streamRef = 0
  /\ recorders = <<>>
  /\ mediaRecorderRef = 0
  /\ audioChunks = <<>>
  /\ stopQueue = <<>>
  /\ reqs = <<>>
  /\ lastDelivery = NoDelivery
  /\ analyserRef = FALSE
  /\ animationRef = "null"
  /\ rafOrphans = 0
  /\ startupTimeouts = 0
  /\ MergeIdle
  /\ AdmIdle
  /\ HostIdle
  /\ PagesIdle

(* The message the catch of startRecording shows for an error of the given
   name and message text; it is set after the message of the inner catch, so
   it is the one that remains *)
startErrorMessage(name, message) ==
  IF name = "NotAllowedError" THEN ErrDenied
  ELSE IF name = "NotFoundError" THEN ErrNotFound
  ELSE IF name = "NotSupportedError" THEN ErrNotSupported
  ELSE IF message = "not supported" THEN ErrNotSupported
  ELSE ErrStartOther

(* The Record/Stop button is disabled while isProcessing (the disabled and
   loading props are false) *)
RecordButtonEnabled == mounted /\ ~isProcessing

(* Record click: startRecording up to the await of getUserMedia *)
StartClick ==
  /\ component = "Recorder"
  /\ Quiet
  /\ RecordButtonEnabled
  /\ ~isRecording
  /\ Len(streams) + pendingStart < MaxSessions
  /\ IF mediaDevices
     THEN /\ err' = "null"
          /\ pendingStart' = pendingStart + 1
     ELSE /\ err' = startErrorMessage("Error", "not supported")
          /\ pendingStart' = pendingStart
  /\ UNCHANGED <<component, mediaDevices, mounted, isRecording, isPaused,
                 duration, isProcessing, streams, streamRef, recorders,
                 mediaRecorderRef, audioChunks, stopQueue, reqs, lastDelivery,
                 mergeVars, admVars, monVars, hostVars, pageVars>>

(* getUserMedia rejects: the catch of startAudioRecording rethrows and the
   catch of startRecording sets the message of the error's class *)
GetUserMediaReject(name) ==
  /\ component = "Recorder"
  /\ Quiet
  /\ pendingStart > 0
  /\ pendingStart' = pendingStart - 1
  /\ err' = St(err, startErrorMessage(name, "other"))
  /\ UNCHANGED <<component, mediaDevices, mounted, isRecording, isPaused,
                 duration, isProcessing, streams, streamRef, recorders,
                 mediaRecorderRef, audioChunks, stopQueue, reqs, lastDelivery,
                 mergeVars, admVars, monVars, hostVars, pageVars>>

(* getUserMedia resolves and startAudioRecording runs to its end, or to the
   throw of the AudioContext or of the MediaRecorder constructor *)
GetUserMediaResolve(outcome) ==
  /\ component = "Recorder"
  /\ Quiet
  /\ pendingStart > 0
  /\ pendingStart' = pendingStart - 1
  /\ LET sid == Len(streams) + 1
     IN /\ streams' = Append(streams, "live")
        /\ streamRef' = sid
        /\ IF outcome = "started"
           THEN /\ recorders' = Append(recorders,
                     [state |-> "recording", emitted |-> 0,
                      mimeType |-> NegotiatedMime])
                /\ mediaRecorderRef' = sid
                /\ audioChunks' = <<>>
                /\ isRecording' = St(isRecording, TRUE)
                /\ duration' = St(duration, 0)
                /\ err' = err
           ELSE /\ recorders' = Append(recorders, NoRecorder)
                /\ err' = St(err, IF outcome = "AudioContextThrows"
                                  THEN startErrorMessage("Error", "other")
                                  ELSE startErrorMessage("NotSupportedError", "other"))
                /\ UNCHANGED <<mediaRecorderRef, audioChunks, isRecording, duration>>
  /\ IF outcome = "AudioContextThrows"
     THEN UNCHANGED <<analyserRef, startupTimeouts>>
     ELSE /\ analyserRef' = TRUE
          /\ startupTimeouts' = startupTimeouts + 1
  /\ UNCHANGED <<component, mediaDevices, mounted, isPaused, isProcessing,
                 stopQueue, reqs, lastDelivery, mergeVars, admVars, hostVars, pageVars>>
  /\ MonitorAfterRender

(* ondataavailable: a recording MediaRecorder hands over a chunk, which is
   kept when its size is not 0 *)
DataAvailable(r, size) ==
  /\ Quiet
  /\ r \in 1..Len(recorders)
  /\ recorders[r].state = "recording"
  /\ MoreChunks
  /\ IF size > 0
     THEN /\ audioChunks' = Append(audioChunks, <<r, recorders[r].emitted + 1>>)
          /\ recorders' = [recorders EXCEPT ![r].emitted = @ + 1]
     ELSE UNCHANGED <<audioChunks, recorders>>
  /\ UNCHANGED <<component, mediaDevices, mounted, isRecording, isPaused,
                 duration, isProcessing, err, pendingStart, streams, streamRef,
                 mediaRecorderRef, stopQueue, reqs, lastDelivery, mergeVars,
                 admVars, monVars, hostVars, pageVars>>

(* The body of stopRecording once its test has passed, as a change of the
   media objects: recorder.stop(), then stop() on the tracks of streamRef *)
StopRecordingMedia == EndTracks(StopRecorder(Media, mediaRecorderRef), streamRef)

(* stopRecording, called with isRecording true in its closure; stop() on an
   inactive MediaRecorder throws InvalidStateError before anything is set *)
stopRecording ==
  IF mediaRecorderRef # 0 /\ recorders[mediaRecorderRef].state \in ActiveStates
  THEN /\ SetMedia(StopRecordingMedia)
       /\ isRecording' = FALSE
       /\ isPaused' = FALSE
       /\ streamRef' = 0
  ELSE UNCHANGED <<streams, recorders, stopQueue, isRecording, isPaused, streamRef>>

(* Stop click *)
StopClick ==
  /\ component = "Recorder"
  /\ Quiet
  /\ RecordButtonEnabled
  /\ isRecording
  /\ stopRecording
  /\ UNCHANGED <<component, mediaDevices, mounted, duration, isProcessing, err,
                 pendingStart, mediaRecorderRef, audioChunks, reqs,
                 lastDelivery, analyserRef, startupTimeouts, mergeVars, admVars, hostVars, pageVars>>
  /\ MonitorAfterRender

PauseEnds(paused) == "inactive"

(* mediaRecorderRef.current.resume() when isPaused, pause() otherwise: the
   state the MediaRecorder is in afterwards *)
AfterToggle(paused) == IF paused THEN "recording" ELSE "paused"

(* Pause/Resume click: pauseRecording; pause() or resume() on an inactive
   MediaRecorder throws InvalidStateError *)
PauseClick ==
  /\ component = "Recorder"
  /\ Quiet
  /\ mounted
  /\ isRecording
  /\ mediaRecorderRef # 0
  /\ recorders[mediaRecorderRef].state \in ActiveStates
  /\ isPaused' = ~isPaused
  /\ recorders' = [recorders EXCEPT ![mediaRecorderRef].state =
                     AfterToggle(isPaused)]
  /\ UNCHANGED <<component, mediaDevices, mounted, isRecording, duration,
                 isProcessing, err, pendingStart, streams, streamRef,
                 mediaRecorderRef, audioChunks, stopQueue, reqs, lastDelivery,
                 analyserRef, startupTimeouts, mergeVars, admVars, hostVars, pageVars>>
  /\ MonitorAfterRender

NeverAtMax(prev) == FALSE

(* prev >= maxDuration in the updater of the interval *)
AtMaxDuration(prev) == prev >= maxDuration

(* One firing of the one-second interval of the timer effect, which is armed
   while isRecording && !isPaused *)
Tick ==
  /\ component = "Recorder"
  /\ Quiet
  /\ mounted
  /\ isRecording
  /\ ~isPaused
  /\ IF AtMaxDuration(duration)
     THEN /\ stopRecording
          /\ duration' = maxDuration
     ELSE /\ duration' = duration + 1
          /\ UNCHANGED <<streams, recorders, stopQueue, isRecording, isPaused,
                         streamRef>>
  /\ UNCHANGED <<component, mediaDevices, mounted, isProcessing, err,
                 pendingStart, mediaRecorderRef, audioChunks, reqs,
                 lastDelivery, analyserRef, startupTimeouts, mergeVars, admVars, hostVars, pageVars>>
  /\ MonitorAfterRender

---------------------------------------------------------------------------
(* Transcription responses *)

RespStrs == StrsUpTo({" ", "a"}, MaxRespStrLen)

JsonValue(v) ==
  [kind |-> "ok", status |-> 200, parsable |-> TRUE, isObj |-> FALSE, v |-> v,
   o |-> EmptyObj]

JsonObject(o) ==
  [kind |-> "ok", status |-> 200, parsable |-> TRUE, isObj |-> TRUE,
   v |-> Undefined, o |-> o]

Unparsable ==
  [kind |-> "ok", status |-> 200, parsable |-> FALSE, isObj |-> FALSE,
   v |-> Undefined, o |-> EmptyObj]

HttpError(st) == [NoReply2 EXCEPT !.kind = "http", !.status = st]

NetworkError == [NoReply2 EXCEPT !.kind = "neterror"]

TxReplies ==
  {JsonValue(Str(x)) : x \in RespStrs}
    \cup {JsonObject(Obj1(k, Str(x))) : k \in {"text", "transcript", "result"},
                                        x \in RespStrs}
    \cup {JsonObject([text |-> Str(<<>>), result |-> Str(<<"a">>)]),
          JsonObject(EmptyObj), JsonObject(Obj1("text", Num(7))),
          JsonValue(Null), JsonValue(Num(7)), Unparsable,
          HttpError(500), HttpError(404), HttpError(503), NetworkError}

(* safeJson: JSON.parse of the body, or { text: "", _raw: t } *)
safeJson(reply) ==
  IF reply.parsable THEN reply
  ELSE JsonObject([text |-> Str(<<>>), _raw |-> Str(<<"r", "a", "w">>)])

(* a || b *)
JsOr(a, b) == IF Truthy(a) THEN a ELSE b

FirstKeyOnly(o) == JsOr(Get(o, "text"), Str(<<>>))

(* result.text || result.transcript || result.result || '' *)
FieldsOf(o) ==
  JsOr(Get(o, "text"), JsOr(Get(o, "transcript"), JsOr(Get(o, "result"), Str(<<>>))))

(* The transcript variable of processAudio after the typeof tests *)
ExtractTranscript(result) ==
  IF ~result.isObj /\ result.v.t = "string" THEN result.v
  ELSE IF result.isObj \/ result.v.t = "array" THEN
         IF result.isObj THEN FieldsOf(result.o) ELSE Str(<<>>)
  ELSE Str(<<>>)

(* transcript && transcript.trim() on a value without trim is a TypeError *)
TranscriptThrows(t) == Truthy(t) /\ t.t # "string"

(* What processAudio hands to onTranscript / onTranscribe for a transcript *)
DeliveredText(t) == IF t.t = "string" THEN Trim(t.s) ELSE <<>>

---------------------------------------------------------------------------
(* Recorder: stop events, transcription, retry, unmount *)

(* The queued task of MediaRecorder.stop(): a last dataavailable, then onstop,
   which builds the blob from audioChunksRef.current and calls processAudio *)
StopEvent(size) ==
  /\ component = "Recorder"
  /\ Quiet
  /\ stopQueue # <<>>
  /\ size > 0 => MoreChunks
  /\ LET r == Head(stopQueue)
         more == size > 0
         chunks == IF more
                   THEN Append(audioChunks, <<r, recorders[r].emitted + 1>>)
                   ELSE audioChunks
         mimeType == IF recorders[r].mimeType # "" THEN recorders[r].mimeType
                     ELSE "audio/webm"
     IN /\ audioChunks' = chunks
        /\ recorders' = IF more THEN [recorders EXCEPT ![r].emitted = @ + 1]
                        ELSE recorders
        /\ ProcessAudioStart(BlobOf(chunks, mimeType))
  /\ stopQueue' = Tail(stopQueue)
  /\ UNCHANGED <<component, mediaDevices, mounted, isRecording, isPaused,
                 duration, pendingStart, streams, streamRef, mediaRecorderRef,
                 mergeVars, form, isMapping,
                 admError, mapCalls, staleCalls, monVars, page, pageVars>>

(* The backend (or the network) answers a request that is still in flight *)
ServerReply(i, reply) ==
  /\ Quiet
  /\ i \in 1..Len(reqs)
  /\ reqs[i].state = "inflight"
  /\ reqs[i].reply = NoReply2
  /\ reqs' = [reqs EXCEPT ![i].reply = reply]
  /\ UNCHANGED <<component, mediaDevices, mounted, isRecording, isPaused,
                 duration, isProcessing, err, pendingStart, streams, streamRef,
                 recorders, mediaRecorderRef, audioChunks, stopQueue,
                 lastDelivery, mergeVars, admVars, monVars, hostVars, pageVars>>

(* processAudio after the await of fetch: clearTimeout, the status test,
   safeJson, the extraction, the callbacks; or the catch block when fetch
   rejected (the timer is then still armed); and the finally block *)
Settle(i) ==
  /\ component = "Recorder"
  /\ i \in 1..Len(reqs)
  /\ reqs[i].state = "inflight"
  /\ reqs[i].reply # NoReply2
  /\ LET reply == reqs[i].reply
         transcript == ExtractTranscript(safeJson(reply))
     IN CASE reply.kind = "neterror" ->
               /\ reqs' = Forget([reqs EXCEPT ![i].state = "failed",
                                            ![i].reply = NoReply2])
               /\ err' = St(err, ErrNetwork)
               /\ Deliver(<<>>)
          [] reply.kind = "http" ->
               /\ reqs' = Forget([reqs EXCEPT ![i].state = "failed",
                                            ![i].timer = FALSE,
                                            ![i].reply = NoReply2])
               /\ err' = St(err, ErrHttp)
               /\ NoDeliver
          [] OTHER ->
               /\ reqs' = Forget([reqs EXCEPT ![i].state = "done",
                                            ![i].timer = FALSE,
                                            ![i].reply = NoReply2])
               /\ IF TranscriptThrows(transcript)
                  THEN /\ err' = St(err, ErrTranscription)
                       /\ Deliver(<<>>)
                  ELSE /\ err' = err
                       /\ Deliver(DeliveredText(transcript))
  /\ isProcessing' = St(isProcessing, FALSE)
  /\ UNCHANGED <<component, mediaDevices, mounted, isRecording, isPaused,
                 duration, pendingStart, streams, streamRef, recorders,
                 mediaRecorderRef, audioChunks, stopQueue, mergeVars, form,
                 isMapping, admError, mapCalls, staleCalls, monVars, page, pageVars>>

KeepInFlight(req) == req

(* controller.abort(): the fetch of a request still in flight rejects with
   AbortError; a settled request is not changed *)
Abort(req) ==
  IF req.state = "inflight"
  THEN [req EXCEPT !.state = "aborted", !.reply = NoReply2]
  ELSE req

(* The 120 s timeout of request i fires (timers fire in the order they were
   armed): abort, setErr, setIsProcessing(false); for a request still in
   flight the catch and finally blocks of processAudio follow at once *)
TimerFire(i) ==
  /\ component = "Recorder"
  /\ Quiet
  /\ i \in 1..Len(reqs)
  /\ reqs[i].timer
  /\ \A j \in 1..(i - 1) : ~reqs[j].timer
  /\ reqs' = Forget([reqs EXCEPT ![i] = [Abort(@) EXCEPT !.timer = FALSE]])
  /\ err' = St(err, ErrTimedOut)
  /\ isProcessing' = St(isProcessing, FALSE)
  /\ IF reqs[i].state = "inflight"
     THEN Deliver(<<>>)
     ELSE NoDeliver
  /\ UNCHANGED <<component, mediaDevices, mounted, isRecording, isPaused,
                 duration, pendingStart, streams, streamRef, recorders,
                 mediaRecorderRef, audioChunks, stopQueue, mergeVars, form,
                 isMapping, admError, mapCalls, staleCalls, monVars, page, pageVars>>

(* Retry click: setErr(null) and, when chunks are left, processAudio on a
   blob of them *)
RetryClick ==
  /\ component = "Recorder"
  /\ Quiet
  /\ mounted
  /\ RetryOffered
  /\ IF Len(audioChunks) > 0
     THEN ProcessAudioStart(BlobOf(audioChunks, "audio/webm"))
     ELSE /\ err' = "null"
          /\ UNCHANGED <<isProcessing, reqs>>
          /\ NoDeliver
  /\ UNCHANGED <<component, mediaDevices, mounted, isRecording, isPaused,
                 duration, pendingStart, streams, streamRef, recorders,
                 mediaRecorderRef, audioChunks, stopQueue, mergeVars, form,
                 isMapping, admError, mapCalls, staleCalls, monVars, page, pageVars>>

(* Unmount: the cleanup of the last effect stops the tracks of streamRef *)
Unmount ==
  /\ component = "Recorder"
  /\ Quiet
  /\ mounted
  /\ mounted' = FALSE
  /\ SetMedia(EndTracks(Media, streamRef))
  /\ SetMon(CancelFrame(CancelFrame(Mon)))
  /\ UNCHANGED <<component, mediaDevices, isRecording, isPaused, duration,
                 isProcessing, err, pendingStart, streamRef, mediaRecorderRef,
                 audioChunks, reqs, lastDelivery, analyserRef, startupTimeouts,
                 mergeVars, admVars, hostVars, pageVars>>

---------------------------------------------------------------------------
(* SimpleRecorder (components/SimpleRecorder.tsx): no pause, no duration
   limit, no timeout, no cleanup on unmount; its error state '' is "null" *)

(* Start Recording click: startRecording up to the await of getUserMedia;
   the button is not disabled while processing *)
SimpleStartClick ==
  /\ component = "SimpleRecorder"
  /\ Quiet
  /\ mounted
  /\ ~isRecording
  /\ Len(streams) + pendingStart < MaxSessions
  /\ IF mediaDevices
     THEN /\ err' = "null"
          /\ pendingStart' = pendingStart + 1
     ELSE /\ err' = ErrSimple
          /\ pendingStart' = pendingStart
  /\ UNCHANGED <<component, mediaDevices, mounted, isRecording, isPaused,
                 duration, isProcessing, streams, streamRef, recorders,
                 mediaRecorderRef, audioChunks, stopQueue, reqs, lastDelivery,
                 mergeVars, admVars, monVars, hostVars, pageVars>>

SimpleGetUserMediaReject ==
  /\ component = "SimpleRecorder"
  /\ Quiet
  /\ pendingStart > 0
  /\ pendingStart' = pendingStart - 1
  /\ err' = St(err, ErrSimple)
  /\ UNCHANGED <<component, mediaDevices, mounted, isRecording, isPaused,
                 duration, isProcessing, streams, streamRef, recorders,
                 mediaRecorderRef, audioChunks, stopQueue, reqs, lastDelivery,
                 mergeVars, admVars, monVars, hostVars, pageVars>>

SimpleGetUserMediaResolve(outcome) ==
  /\ component = "SimpleRecorder"
  /\ Quiet
  /\ pendingStart > 0
  /\ pendingStart' = pendingStart - 1
  /\ LET sid == Len(streams) + 1
     IN /\ streams' = Append(streams, "live")
        /\ streamRef' = sid
        /\ IF outcome = "started"
           THEN /\ recorders' = Append(recorders,
                     [state |-> "recording", emitted |-> 0,
                      mimeType |-> NegotiatedMime])
                /\ mediaRecorderRef' = sid
                /\ audioChunks' = <<>>
                /\ isRecording' = St(isRecording, TRUE)
                /\ err' = err
           ELSE /\ recorders' = Append(recorders, NoRecorder)
                /\ err' = St(err, ErrSimple)
                /\ UNCHANGED <<mediaRecorderRef, audioChunks, isRecording>>
  /\ UNCHANGED <<component, mediaDevices, mounted, isPaused, duration,
                 isProcessing, stopQueue, reqs, lastDelivery, mergeVars,
                 admVars, monVars, hostVars, pageVars>>

(* Stop Recording click *)
SimpleStopClick ==
  /\ component = "SimpleRecorder"
  /\ Quiet
  /\ mounted
  /\ isRecording
  /\ stopRecording
  /\ UNCHANGED <<component, mediaDevices, mounted, duration, isProcessing, err,
                 pendingStart, mediaRecorderRef, audioChunks, reqs,
                 lastDelivery, mergeVars, admVars, monVars, hostVars, pageVars>>

(* mediaRecorder.onstop up to the await of fetch: an empty blob throws, which
   runs catch (setError) and finally (setIsProcessing(false)) at once *)
SimpleStopEvent(size) ==
  /\ component = "SimpleRecorder"
  /\ Quiet
  /\ stopQueue # <<>>
  /\ size > 0 => MoreChunks
  /\ LET r == Head(stopQueue)
         more == size > 0
         chunks == IF more
                   THEN Append(audioChunks, <<r, recorders[r].emitted + 1>>)
                   ELSE audioChunks
         blob == BlobOf(chunks, "audio/webm")
     IN /\ audioChunks' = chunks
        /\ recorders' = IF more THEN [recorders EXCEPT ![r].emitted = @ + 1]
                        ELSE recorders
        /\ IF IsEmptyBlob(blob)
           THEN /\ err' = St(err, ErrSimpleEmpty)
                /\ isProcessing' = St(isProcessing, FALSE)
                /\ reqs' = reqs
           ELSE /\ err' = err
                /\ isProcessing' = St(isProcessing, TRUE)
                /\ reqs' = Append(reqs, NewRequest(blob, FALSE))
  /\ stopQueue' = Tail(stopQueue)
  /\ UNCHANGED <<component, mediaDevices, mounted, isRecording, isPaused,
                 duration, pendingStart, streams, streamRef, mediaRecorderRef,
                 lastDelivery, mergeVars, admVars, monVars, hostVars, pageVars>>

(* const transcribedText = result.text || result; a property read on null
   and trim on a value that is not a string are TypeErrors *)
SimpleThrows(reply) ==
  \/ reply.kind # "ok"
  \/ ~reply.parsable
  \/ ~reply.isObj /\ reply.v.t = "null"
  \/ reply.isObj /\ ~Truthy(Get(reply.o, "text"))
  \/ reply.isObj /\ Get(reply.o, "text").t # "string"
  \/ ~reply.isObj /\ Truthy(reply.v) /\ reply.v.t # "string"

SimpleText(reply) ==
  IF reply.isObj THEN Get(reply.o, "text") ELSE reply.v

(* mediaRecorder.onstop after the await of fetch *)
SimpleSettle(i) ==
  /\ component = "SimpleRecorder"
  /\ i \in 1..Len(reqs)
  /\ reqs[i].state = "inflight"
  /\ reqs[i].reply # NoReply2
  /\ LET reply == reqs[i].reply
     IN IF SimpleThrows(reply)
        THEN /\ reqs' = Forget([reqs EXCEPT ![i].state = "failed",
                                          ![i].reply = NoReply2])
             /\ err' = St(err, ErrSimple)
             /\ NoDeliver
        ELSE /\ reqs' = Forget([reqs EXCEPT ![i].state = "done",
                                          ![i].reply = NoReply2])
             /\ IF SimpleText(reply).t = "string" /\ Trim(SimpleText(reply).s) # <<>>
                THEN /\ err' = err
                     /\ Deliver(SimpleText(reply).s)
                ELSE /\ err' = St(err, ErrSimpleNoTranscript)
                     /\ NoDeliver
  /\ isProcessing' = St(isProcessing, FALSE)
  /\ UNCHANGED <<component, mediaDevices, mounted, isRecording, isPaused,
                 duration, pendingStart, streams, streamRef, recorders,
                 mediaRecorderRef, audioChunks, stopQueue, mergeVars, form,
                 isMapping, admError, mapCalls, staleCalls, monVars, page, pageVars>>

SimpleUnmount ==
  /\ component = "SimpleRecorder"
  /\ Quiet
  /\ mounted
  /\ mounted' = FALSE
  /\ UNCHANGED <<component, mediaDevices, isRecording, isPaused, duration,
                 isProcessing, err, pendingStart, streams, streamRef, recorders,
                 mediaRecorderRef, audioChunks, stopQueue, reqs, lastDelivery,
                 mergeVars, admVars, monVars, hostVars, pageVars>>

---------------------------------------------------------------------------

ChunkSizes == {0, 1}

(* The recording sessions: every way a session starts, runs and ends, for
   both components; the backend does not answer *)
SessionNext ==
  \/ StartClick
  \/ \E name \in {"NotAllowedError", "NotFoundError"} : GetUserMediaReject(name)
  \/ \E outcome \in {"started", "AudioContextThrows", "MediaRecorderThrows"} :
       GetUserMediaResolve(outcome)
  \/ \E r \in 1..Len(recorders) : \E size \in ChunkSizes : DataAvailable(r, size)
  \/ StopClick
  \/ PauseClick
  \/ Tick
  \/ \E size \in ChunkSizes : StopEvent(size)
  \/ Unmount
  \/ RafFire
  \/ StartupTimeoutFire
  \/ SimpleStartClick
  \/ SimpleGetUserMediaReject
  \/ \E outcome \in {"started", "MediaRecorderThrows"} :
       SimpleGetUserMediaResolve(outcome)
  \/ SimpleStopClick
  \/ \E size \in ChunkSizes : SimpleStopEvent(size)
  \/ SimpleUnmount

SpecSession == RecInit /\ [][SessionNext]_vars

(* C3: in every reachable state of a Recorder there is at most one audio
   session, that is at most one microphone stream with live tracks that has
   an active (recording or paused) MediaRecorder on it, whatever the
   interleaving of clicks with the completion of getUserMedia *)
C3_AtMostOneSession ==
  component = "Recorder" =>
    Cardinality({i \in 1..Len(streams) :
                   streams[i] = "live" /\ recorders[i].state \in ActiveStates}) <= 1

(* C4: every stream the Recorder acquired has had its tracks stopped once the
   Recorder is at rest: no start is pending and either no recording is in
   progress (after stopRecording, or after a start that failed once the
   stream was there) or the component has been unmounted *)
C4_TracksReleased ==
  (component = "Recorder" /\ pendingStart = 0 /\ (~isRecording \/ ~mounted))
    => \A i \in 1..Len(streams) : streams[i] = "ended"

(* C5: when the stop event of a MediaRecorder is handled and the blob built
   from the collected chunks has size 0, no request is issued and, for a
   mounted component, the error is the empty-audio error of the component
   and the processing flag is false afterwards *)
C5_EmptyBlobFailsFast ==
  [][ (stopQueue # <<>> /\ stopQueue' = Tail(stopQueue)
         /\ BlobSize(BlobOf(audioChunks', "audio/webm")) = 0)
        => /\ reqs' = reqs
           /\ mounted =>
                /\ err' = IF component = "Recorder" THEN ErrEmptyAudio
                          ELSE ErrSimpleEmpty
                /\ ~isProcessing' ]_vars

C5_Witness ==
  /\ component = "Recorder"
  /\ err = ErrEmptyAudio
  /\ ~isProcessing
  /\ reqs = <<>>
  /\ stopQueue = <<>>
  /\ Len(streams) = 1
  /\ recorders[1].state = "inactive"

(* C9: when the stop event of a Recorder session that collected n >= 1
   non-empty chunks is handled, one request is issued whose blob is made of
   exactly the n chunks of that session in arrival order, typed with the
   negotiated MIME type, and the tracks of the session's stream have ended *)
C9_StopCompletesSession ==
  [][ (component = "Recorder" /\ stopQueue # <<>> /\ stopQueue' = Tail(stopQueue)
         /\ recorders'[Head(stopQueue)].emitted >= 1)
        => LET r == Head(stopQueue)
               n == recorders'[r].emitted
           IN /\ Len(reqs') = Len(reqs) + 1
              /\ reqs'[Len(reqs')].blob =
                   BlobOf([k \in 1..n |-> <<r, k>>], NegotiatedMime)
              /\ BlobSize(reqs'[Len(reqs')].blob) > 0
              /\ streams'[r] = "ended" ]_vars

(* C10: while a mounted Recorder is recording and not paused the duration
   counter never exceeds maxDuration, and once the counter is at maxDuration
   the next firing of the interval can happen and every such firing stops
   the session (MediaRecorder inactive with its stop event queued, tracks of
   the stream ended, isRecording false) and leaves err as it was *)
C10_MaxDuration ==
  (component = "Recorder" /\ mounted /\ isRecording /\ ~isPaused) =>
    /\ duration <= maxDuration
    /\ duration = maxDuration =>
         /\ ENABLED Tick
         /\ ~ENABLED (/\ Tick
                      /\ ~(/\ ~isRecording'
                           /\ recorders'[mediaRecorderRef].state = "inactive"
                           /\ \E k \in 1..Len(stopQueue') :
                                stopQueue'[k] = mediaRecorderRef
                           /\ streams'[streamRef] = "ended"
                           /\ duration' = maxDuration
                           /\ err' = err))

(* C11: a pause/resume toggle does not end the session: whenever a mounted
   Recorder is recording, pauseRecording can run and every run of it flips
   isPaused and leaves isRecording true, the MediaRecorder active, the
   streams, the collected chunks and the duration counter as they were;
   with no recording in progress pauseRecording changes nothing; and the
   duration counter advances only in steps taken while recording and not
   paused *)
C11_PauseKeepsSession ==
  /\ [](component = "Recorder" /\ mounted /\ Quiet =>
         /\ isRecording =>
              /\ ENABLED PauseClick
              /\ ~ENABLED (/\ PauseClick
                           /\ ~(/\ isPaused' = ~isPaused
                                /\ isRecording'
                                /\ recorders'[mediaRecorderRef].state \in ActiveStates
                                /\ streams' = streams
                                /\ audioChunks' = audioChunks
                                /\ stopQueue' = stopQueue
                                /\ duration' = duration))
         /\ ~isRecording => ~ENABLED PauseClick)
  /\ [][ (component = "Recorder" /\ duration' > duration)
          => (isRecording /\ ~isPaused) ]_vars

C11_Witness ==
  /\ component = "Recorder"
  /\ mounted
  /\ isRecording
  /\ isPaused
  /\ duration > 0
  /\ audioChunks # <<>>
  /\ recorders[mediaRecorderRef].state = "paused"
  /\ streams[streamRef] = "live"

(* C12: in a Recorder that is unmounted, not recording, or paused, no
   audio-level frame callback is scheduled, neither the one whose id
   animationRef holds nor one it has lost; and the 100 ms timeout of
   startAudioRecording, whenever it runs, schedules none *)
C12_NoSamplingAfterStop ==
  component = "Recorder" =>
    /\ (~mounted \/ ~isRecording \/ isPaused) =>
          (animationRef # "pending" /\ rafOrphans = 0)
    /\ ~ENABLED (StartupTimeoutFire /\ <<animationRef, rafOrphans>>' #
                                        <<animationRef, rafOrphans>>)

C12_Witness ==
  /\ component = "Recorder"
  /\ ~isRecording
  /\ animationRef = "null"
  /\ analyserRef
  /\ startupTimeouts > 0
  /\ \E i \in 1..Len(recorders) : recorders[i].state = "inactive"

(* C24: once the Recorder is unmounted, in whatever state it was, every
   track is ended, no MediaRecorder is active, no timeout of a transcription
   request is armed and no request is in flight, and no step delivers a
   transcript to the parent *)
C24_UnmountDestroysSession ==
  /\ [](component = "Recorder" /\ ~mounted =>
         /\ \A i \in 1..Len(streams) : streams[i] = "ended"
         /\ \A i \in 1..Len(recorders) : recorders[i].state \notin ActiveStates
         /\ \A i \in 1..Len(reqs) : ~reqs[i].timer /\ reqs[i].state # "inflight")
  /\ [][ (component = "Recorder" /\ ~mounted) => lastDelivery' = lastDelivery ]_vars

(* A start of the Recorder fails: getUserMedia rejects, the MediaRecorder
   constructor throws NotSupportedError, or there is no microphone interface *)
StartFails ==
  \/ \E name \in {"NotAllowedError", "NotFoundError"} : GetUserMediaReject(name)
  \/ GetUserMediaResolve("MediaRecorderThrows")
  \/ (StartClick /\ ~mediaDevices)

(* C19: when a start of the Recorder fails because the permission is denied,
   no device is found or capture is not supported, the attempt ends with no
   session: isRecording is false and no recorder is running, the message a
   mounted Recorder shows is the one of the failure's class, and a Record
   click with a microphone interface clears the message and opens a new
   attempt *)
C19_StartFailureEndsWithNoSession ==
  [][ /\ StartFails =>
             /\ ~isRecording'
             /\ \A i \in 1..Len(recorders') :
                    recorders'[i].state \notin ActiveStates
      /\ \A name \in {"NotAllowedError", "NotFoundError"} :
           (GetUserMediaReject(name) /\ mounted) =>
              err' = (IF name = "NotAllowedError" THEN ErrDenied ELSE ErrNotFound)
      /\ (GetUserMediaResolve("MediaRecorderThrows") /\ mounted) =>
              err' = ErrNotSupported
      /\ (StartClick /\ ~mediaDevices) => err' = ErrNotSupported
      /\ (StartClick /\ mediaDevices) =>
              err' = "null" /\ pendingStart' = pendingStart + 1
    ]_vars

(* The failing attempt itself adds nothing: the step of the failure leaves
   isRecording and mediaRecorderRef as they were and starts no recorder, and
   the messages are those of the failure's class *)
C19_FailedAttemptAddsNothing ==
  [][ /\ StartFails =>
             /\ isRecording' = isRecording
             /\ mediaRecorderRef' = mediaRecorderRef
             /\ \A i \in 1..Len(recorders') :
                    recorders'[i].state \in ActiveStates =>
                      i <= Len(recorders) /\ recorders[i].state \in ActiveStates
      /\ \A name \in {"NotAllowedError", "NotFoundError"} :
           (GetUserMediaReject(name) /\ mounted) =>
              err' = (IF name = "NotAllowedError" THEN ErrDenied ELSE ErrNotFound)
      /\ (GetUserMediaResolve("MediaRecorderThrows") /\ mounted) =>
              err' = ErrNotSupported
      /\ (StartClick /\ ~mediaDevices) => err' = ErrNotSupported
      /\ (StartClick /\ mediaDevices) =>
              err' = "null" /\ pendingStart' = pendingStart + 1
    ]_vars


C10_Witness ==
  /\ component = "Recorder"
  /\ mounted
  /\ isRecording
  /\ ~isPaused
  /\ duration = maxDuration
  /\ recorders[mediaRecorderRef].state = "recording"
  /\ streams[streamRef] = "live"
  /\ audioChunks # <<>>

(* The transcription of what was recorded: sessions that start and are
   stopped by the user, and everything the backend and the timers can do *)
TranscribeNext ==
  \/ StartClick
  \/ GetUserMediaResolve("started")
  \/ StopClick
  \/ StopEvent(1)
  \/ \E i \in 1..Len(reqs) : \E reply \in TxReplies : ServerReply(i, reply)
  \/ \E i \in 1..Len(reqs) : Settle(i)
  \/ \E i \in 1..Len(reqs) : TimerFire(i)
  \/ RetryClick
  \/ SimpleStartClick
  \/ SimpleGetUserMediaResolve("started")
  \/ SimpleStopClick
  \/ SimpleStopEvent(1)
  \/ \E i \in 1..Len(reqs) : SimpleSettle(i)

SpecTranscribe == RecInit /\ [][TranscribeNext]_vars

(* The transcription requests of the component that have not settled *)
(* The requests whose 120 s timeout is armed *)
Armed(rs) == {i \in 1..Len(rs) : rs[i].timer}

(* C28: the timeout of a transcription request that has settled before
   120 s (response received, or fetch rejected for another reason than the
   timeout) has no further effect: when it fires it neither sets the error
   nor changes the processing flag *)
C28_SettledTimerHasNoEffect ==
  [][ \A i \in 1..Len(reqs) :
        (TimerFire(i) /\ reqs[i].state # "inflight") =>
           /\ err' = err
           /\ isProcessing' = isProcessing ]_vars

(* The part that holds: a response received (any status) clears the timeout
   of its request *)
C28_ResponseClearsTimer ==
  [][ \A i \in 1..Len(reqs) :
        (Settle(i) /\ reqs[i].reply.kind # "neterror") =>
           /\ reqs[i].timer
           /\ Cardinality(Armed(reqs')) = Cardinality(Armed(reqs)) - 1 ]_vars

InFlight == {i \in 1..Len(reqs) : reqs[i].state = "inflight"}

(* C25: with the Record button disabled while isProcessing, a mounted
   Recorder has at most one transcription call in flight, for any sequence
   of clicks, Retry included; isProcessing is true while the call is
   outstanding and false once it has settled *)
C25_OneCallInFlight ==
  (component = "Recorder" /\ mounted) =>
    /\ Cardinality(InFlight) <= 1
    /\ InFlight # {} => isProcessing
    /\ (InFlight = {} /\ stopQueue = <<>>) => ~isProcessing

(* C6 as stated: when a Recorder request settles on a 2xx response whose body
   is {text: X}, {transcript: X}, {result: X} or the JSON string X, the text
   handed to onTranscript/onTranscribe is X; on a body that is not parsable
   JSON it is the empty text *)
C6_TranscriptDeliveredAsIs ==
  [][ \A i \in 1..Len(reqs) :
        (component = "Recorder" /\ reqs[i].reply.kind = "ok") =>
          LET reply == reqs[i].reply
          IN /\ ~reply.parsable => lastDelivery' = <<>>
             /\ (reply.parsable /\ ~reply.isObj /\ reply.v.t = "string")
                  => lastDelivery' = reply.v.s
             /\ \A k \in {"text", "transcript", "result"} :
                  \A x \in RespStrs :
                    (reply.parsable /\ reply.isObj /\ reply.o = Obj1(k, Str(x)))
                      => lastDelivery' = x ]_vars

(* C6 as the code has it: the text handed to onTranscript/onTranscribe is X
   with leading and trailing white space removed (the empty text when X is
   empty or white space only); on a body that is not parsable JSON it is the
   empty text *)
C6_TranscriptDeliveredTrimmed ==
  [][ \A i \in 1..Len(reqs) :
        (component = "Recorder" /\ reqs[i].reply.kind = "ok") =>
          LET reply == reqs[i].reply
          IN /\ ~reply.parsable => lastDelivery' = <<>>
             /\ (reply.parsable /\ ~reply.isObj /\ reply.v.t = "string")
                  => lastDelivery' = Trim(reply.v.s)
             /\ \A k \in {"text", "transcript", "result"} :
                  \A x \in RespStrs :
                    (reply.parsable /\ reply.isObj /\ reply.o = Obj1(k, Str(x)))
                      => lastDelivery' = Trim(x) ]_vars

C6_Witness ==
  /\ component = "Recorder"
  /\ lastDelivery = <<"a">>
  /\ err = "null"
  /\ ~isProcessing
  /\ reqs = <<>>

(* C7: every Recorder request in flight still has its 120 s timeout armed,
   so a request whose timeout has fired can no longer settle and deliver;
   and the step in which the timeout of a request in flight fires removes
   the request, sets the timed-out error, clears isProcessing, offers Retry
   and hands only the empty text to the callbacks *)
C7_TimeoutAborts ==
  /\ [](component = "Recorder" =>
         \A i \in 1..Len(reqs) : reqs[i].state = "inflight" => reqs[i].timer)
  /\ [][ (component = "Recorder" /\ mounted /\ Quiet
           /\ \E i \in 1..Len(reqs) :
                /\ reqs[i].state = "inflight"
                /\ reqs' = SubSeq(reqs, 1, i - 1) \o SubSeq(reqs, i + 1, Len(reqs)))
          => /\ err' = ErrTimedOut
             /\ ~isProcessing'
             /\ RetryOffered'
             /\ lastDelivery' = <<>> ]_vars

C7_Witness ==
  /\ component = "Recorder"
  /\ err = ErrTimedOut
  /\ RetryOffered
  /\ ~isProcessing
  /\ reqs = <<>>
  /\ audioChunks # <<>>

(* C8: when a Recorder request settles on a 2xx response whose transcript is
   empty or white space only, the empty text is handed to the callbacks and
   err is null afterwards; when it settles on a failure (no connection, a
   status that is not 2xx, a transcript that cannot be processed), err is
   not null afterwards and nothing is handed to the callbacks *)
C8_EmptyIsNotFailure ==
  [][ \A i \in 1..Len(reqs) :
        (component = "Recorder" /\ mounted /\ reqs[i].reply # NoReply2) =>
          LET reply == reqs[i].reply
              transcript == ExtractTranscript(safeJson(reply))
              failed == reply.kind # "ok" \/ TranscriptThrows(transcript)
          IN /\ (~failed /\ DeliveredText(transcript) = <<>>)
                  => (lastDelivery' = <<>> /\ err' = "null")
             /\ failed => (err' # "null" /\ lastDelivery' = lastDelivery) ]_vars

----------------------------------------------------------------------------
(* SpecPage: a Recorder on the page that hosts it, Admission (its transcript
   goes to setTxAdmission and mapping has its own button) or Discharge (its
   transcript goes to handleTranscript(section.key)) *)

DischargeFields ==
  {"patientName", "age", "gender", "uhid", "ipd", "admissionDate",
   "dischargeDate", "treatingClinician", "diagnosis", "chiefComplaints",
   "pastHistory", "physicalExamination", "investigations", "procedures",
   "courseOfTreatment", "operativeFindings", "treatmentGiven",
   "treatmentAdvised", "followUpAdvice"}

initialData == [f \in DischargeFields |-> <<>>]

(* handleInputChange: typing in the textarea of a section *)
handleInputChange(field, value) ==
  /\ page = "Discharge"
  /\ Quiet
  /\ formData' = [formData EXCEPT ![field] = value]
  /\ UNCHANGED <<page, mergeVars, admVars, recVars, monVars, pageVars>>

PageInit ==
  /\ page \in {"Admission", "Discharge"}
  /\ form = IF page = "Admission" THEN emptyForm ELSE EmptyObj
  /\ formData = IF page = "Discharge" THEN initialData ELSE EmptyObj
  /\ txAdmission = <<>>
  /\ isMapping = FALSE
  /\ admError = FALSE
  /\ mapCalls = <<>>
  /\ staleCalls = 0
  /\ component = "Recorder"
  /\ mediaDevices = TRUE
  /\ mounted = TRUE
  /\ isRecording = FALSE
  /\ isPaused = FALSE
  /\ duration = 0
  /\ isProcessing = FALSE
  /\ err = "null"
  /\ pendingStart = 0
  /\ streams = <<>>
  /\ streamRef = 0
  /\ recorders = <<>>
  /\ mediaRecorderRef = 0
  /\ audioChunks = <<>>
  /\ stopQueue = <<>>
  /\ reqs = <<>>
  /\ lastDelivery = NoDelivery
  /\ analyserRef = FALSE
  /\ animationRef = "null"
  /\ rafOrphans = 0
  /\ startupTimeouts = 0
  /\ MergeIdle
  /\ PagesIdle

PageTxReplies ==
  {JsonObject(Obj1("text", Str(<<"a">>))), JsonObject(Obj1("text", Str(<<" ">>))),
   Unparsable, HttpError(500)}

PageMapReplies ==
  {[kind |-> "object", body |-> Obj1("name", Str(T_Ravi))],
   [kind |-> "error", body |-> EmptyObj]}

PageNext ==
  \/ StartClick
  \/ GetUserMediaResolve("started")
  \/ StopClick
  \/ StopEvent(1)
  \/ \E i \in 1..Len(reqs) : \E reply \in PageTxReplies : ServerReply(i, reply)
  \/ \E i \in 1..Len(reqs) : Settle(i)
  \/ \E i \in 1..Len(reqs) : TimerFire(i)
  \/ page = "Admission" /\ Quiet /\ \E t \in Transcripts : AdmSetTranscript(t)
  \/ page = "Admission" /\ Quiet /\ AdmMapClick
  \/ page = "Admission" /\ Quiet /\ \E r \in PageMapReplies : AdmServerReply(r)
  \/ page = "Admission" /\ Quiet /\ AdmMapSettle
  \/ \E v \in {<<>>, <<"b">>} : handleInputChange(section, v)

SpecPage == PageInit /\ [][PageNext]_vars

(* C13: a step of the Recorder (recording, stopping, a transcription response
   or its timeout) neither issues a mapping request nor changes a form
   record, and a mapping request is issued only for a non-blank transcript *)
C13_NoAutomaticMapping ==
  [][ /\ recVars' # recVars =>
           (mapCalls' = mapCalls /\ form' = form /\ formData' = formData)
      /\ Len(mapCalls') > Len(mapCalls) => Trim(txAdmission) # <<>> ]_vars

(* The same for the Admission page alone *)
C13_AdmissionOnly ==
  [][ page = "Admission" =>
        /\ recVars' # recVars =>
             (mapCalls' = mapCalls /\ form' = form /\ formData' = formData)
        /\ Len(mapCalls') > Len(mapCalls) => Trim(txAdmission) # <<>> ]_vars

----------------------------------------------------------------------------
(* SpecHandover: the NurseHandover page (pages/NurseHandover.tsx), its
   outgoing and incoming sections *)

MaxMapCalls == 1

HoFields ==
  {"currentPatientStatus", "medsGiven", "medsDue", "pendingInvestigations",
   "verification", "medications", "investigations", "acknowledgement"}

(* initialData, the fields the two handlers write; the vitals keep their
   values for the transcripts drawn here, which have no digits *)
hoInitialData == [f \in HoFields |-> Str(<<>>)]

W_patient_status == 
  <<"p", "a", "t", "i", "e", "n", "t", " ", "s", "t", "a", "t", "u", "s">>
W_status == <<"s", "t", "a", "t", "u", "s">>
W_stable == <<"s", "t", "a", "b", "l", "e">>
W_medication == <<"m", "e", "d", "i", "c", "a", "t", "i", "o", "n">>
W_medications == <<"m", "e", "d", "i", "c", "a", "t", "i", "o", "n", "s">>
W_pending == <<"p", "e", "n", "d", "i", "n", "g">>
W_verification == 
  <<"v", "e", "r", "i", "f", "i", "c", "a", "t", "i", "o", "n">>
W_paracetamol == <<"p", "a", "r", "a", "c", "e", "t", "a", "m", "o", "l">>
W_investigation == 
  <<"i", "n", "v", "e", "s", "t", "i", "g", "a", "t", "i", "o", "n">>
W_investigations == 
  <<"i", "n", "v", "e", "s", "t", "i", "g", "a", "t", "i", "o", "n", "s">>
W_pending_confirm == 
  <<"p", "e", "n", "d", "i", "n", "g", " ", "c", "o", "n", "f", "i", "r", "m">>
W_paracetamol_default == 
  <<"p", "a", "r", "a", "c", "e", "t", "a", "m", "o", "l", " ", "i", "s", " ", "p", "e", "n", "d", "i", "n", "g", " ", "v", "e", "r", "i", "f", "y">>
W_investigations_default == 
  <<"i", "n", "v", "e", "s", "t", "i", "g", "a", "t", "i", "o", "n", "s", " ", "p", "e", "n", "d", "i", "n", "g", " ", "c", "o", "n", "f", "i", "r", "m">>

(* The end of the longest run of characters other than "." from position i *)
RunEnd(text, i) ==
  CHOOSE j \in (i - 1)..Len(text) :
    /\ \A k \in i..j : text[k] # "."
    /\ j = Len(text) \/ text[j + 1] = "."

(* The word, in lower case, stands at position i of the text, whatever the
   case of the text (the i flag) *)
WordAt(text, i, word) ==
  /\ i + Len(word) - 1 <= Len(text)
  /\ \A k \in 1..Len(word) : LowerChar(text[i + k - 1]) = word[k]

(* text.match(/word[^.]*/i)?.[0] || "" *)
MatchRun(text, word) ==
  LET starts == {i \in 1..Len(text) : WordAt(text, i, word)}
  IN IF starts = {} THEN <<>>
     ELSE LET i == CHOOSE x \in starts : \A y \in starts : x <= y
          IN SubSeq(text, i, RunEnd(text, i + Len(word)))

(* text.match(/first[^.]*second[^.]*/i)?.[0] || "" *)
MatchRunWith(text, first, second) ==
  LET starts == {i \in 1..Len(text) :
                   /\ WordAt(text, i, first)
                   /\ Includes(ToLower(SubSeq(text, i + Len(first),
                                              RunEnd(text, i + Len(first)))),
                               second)}
  IN IF starts = {} THEN <<>>
     ELSE LET i == CHOOSE x \in starts : \A y \in starts : x <= y
          IN SubSeq(text, i, RunEnd(text, i + Len(first)))

fallbackStatus(text) ==
  LET a == MatchRunWith(text, W_patient_status, W_stable)
  IN IF a # <<>> THEN a ELSE MatchRunWith(text, W_status, W_stable)

fallbackMeds(text) == MatchRun(text, W_medication)

fallbackTasks(text) == MatchRun(text, W_pending)

RECURSIVE JoinWith(_, _)
JoinWith(a, sep) ==
  IF a = <<>> THEN <<>>
  ELSE IF Len(a) = 1 THEN Head(a)
  ELSE Head(a) \o sep \o JoinWith(Tail(a), sep)

(* m?.key: undefined when m is null *)
OptGet(m, k) == IF m.kind = "object" THEN Get(m.body, k) ELSE Undefined

(* (v ?? []).join("; ") throws unless v is undefined, null or an array *)
JoinThrows(v) == v.t \notin {"undefined", "null", "array"}

JoinOrEmpty(v) == IF v.t = "array" THEN Str(JoinWith(v.a, <<";", " ">>)) ELSE Str(<<>>)

(* (m?.vital_signs || text).match(...) throws on a truthy value that is not
   a string *)
VitalsThrow(m) ==
  LET v == OptGet(m, "vital_signs") IN Truthy(v) /\ v.t # "string"

(* The try block of mapOutgoingFromTranscript is left by an exception: of
   postJSON, or of the code between the await and setFormData *)
OutgoingThrows(m) ==
  \/ m.kind = "error"
  \/ VitalsThrow(m)
  \/ JoinThrows(OptGet(m, "medications"))
  \/ JoinThrows(OptGet(m, "pending_tasks"))

(* An updater under which a field that already has a value keeps it: the
   response that arrives first wins *)
mapOutgoingKeepFirst(prev, text, m) ==
  [prev EXCEPT
     !["currentPatientStatus"] =
        JsOr(@, JsOr(OptGet(m, "patient_condition"), Str(fallbackStatus(text)))),
     !["medsGiven"] =
        JsOr(@, JsOr(JoinOrEmpty(OptGet(m, "medications")), Str(fallbackMeds(text)))),
     !["medsDue"] =
        JsOr(@, JsOr(JoinOrEmpty(OptGet(m, "pending_tasks")), Str(fallbackTasks(text))))]

(* setFormData(prev => ...) of mapOutgoingFromTranscript *)
mapOutgoingFromTranscript(prev, text, m) ==
  [prev EXCEPT
     !["currentPatientStatus"] =
        JsOr(OptGet(m, "patient_condition"), JsOr(Str(fallbackStatus(text)), @)),
     !["medsGiven"] =
        JsOr(JoinOrEmpty(OptGet(m, "medications")), JsOr(Str(fallbackMeds(text)), @)),
     !["medsDue"] =
        JsOr(JoinOrEmpty(OptGet(m, "pending_tasks")), JsOr(Str(fallbackTasks(text)), @)),
     !["pendingInvestigations"] =
        JsOr(IF OptGet(m, "special_instructions").t \in {"undefined", "null"}
            THEN Str(<<>>) ELSE OptGet(m, "special_instructions"), @)]

fallbackVerification(text) ==
  IF Includes(text, W_verification) THEN text ELSE <<>>

fallbackMedications(text) ==
  IF Includes(text, W_medications) \/ Includes(text, W_paracetamol)
  THEN LET a == MatchRunWith(text, W_medication, W_paracetamol)
       IN IF a # <<>> THEN a ELSE W_paracetamol_default
  ELSE <<>>

fallbackInvestigations(text) ==
  IF Includes(text, W_investigations) \/ Includes(text, W_pending_confirm)
  THEN LET a == MatchRunWith(text, W_investigation, W_pending_confirm)
       IN IF a # <<>> THEN a ELSE W_investigations_default
  ELSE <<>>

(* if (!m) return: the JSON null (0, "" and false are not drawn) *)
IncomingReturnsEarly(m) == m.kind = "null"

IncomingThrows(m) ==
  \/ m.kind = "error"
  \/ m.kind = "object" /\ JoinThrows(OptGet(m, "alerts"))

(* setFormData(prev => ...) of mapIncomingFromTranscript *)
mapIncomingFromTranscript(prev, text, m) ==
  [prev EXCEPT
     !["verification"] =
        JsOr(OptGet(m, "shift_summary"), JsOr(Str(fallbackVerification(text)), @)),
     !["acknowledgement"] = JsOr(OptGet(m, "patient_updates"), @),
     !["investigations"] =
        JsOr(OptGet(m, "follow_up_required"),
            JsOr(Str(fallbackInvestigations(text)), @)),
     !["medications"] =
        JsOr(JoinOrEmpty(OptGet(m, "alerts")), JsOr(Str(fallbackMedications(text)), @))]

T_HoAll == 
  <<"S", "t", "a", "t", "u", "s", " ", "s", "t", "a", "b", "l", "e", ".", " ", "M", "e", "d", "i", "c", "a", "t", "i", "o", "n", "s", " ", "a", ".", " ", "p", "e", "n", "d", "i", "n", "g", " ", "b">>
T_HoIncoming == 
  <<"v", "e", "r", "i", "f", "i", "c", "a", "t", "i", "o", "n", ".", " ", "m", "e", "d", "i", "c", "a", "t", "i", "o", "n", "s", " ", "p", "a", "r", "a", "c", "e", "t", "a", "m", "o", "l">>

HoTranscripts == {<<" ">>, <<"x">>, T_HoAll, T_HoIncoming}

(* Bodies of the /api/map/handover_* responses *)
HoBodies ==
  { EmptyObj,
    Obj1("patient_condition", Str(<<"o", "k">>)),
    [medications |-> Arr(<<<<"m">>, <<"n">>>>), pending_tasks |-> Arr(<<>>)],
    Obj1("medications", Str(<<"m">>)),
    Obj1("vital_signs", Num(7)),
    Obj1("alerts", Str(<<"a">>)) }

HoReplies ==
  {[kind |-> "object", body |-> b] : b \in HoBodies}
    \cup {[kind |-> "null", body |-> EmptyObj], [kind |-> "error", body |-> EmptyObj]}

HoInit ==
  /\ hoFormData = hoInitialData
  /\ txOutgoing = <<>>
  /\ txIncoming = <<>>
  /\ hoCalls = <<>>
  /\ MergeIdle
  /\ AdmIdle
  /\ RecIdle
  /\ HostIdle
  /\ DsIdle
  /\ PfIdle
  /\ SaveIdle /\ DateIdle /\ FieldIdle /\ OvIdle

HoFrame ==
  UNCHANGED <<mergeVars, admVars, recVars, monVars, hostVars, dsVars, pfVars,
              saveVars, dateVars, fieldVars, ovVars>>

(* setTxOutgoing / setTxIncoming: typing in the transcript box, or a
   transcript delivered by the Recorder of the section *)
HoSetTranscript(which, t) ==
  /\ IF which = "outgoing"
     THEN txOutgoing' = t /\ UNCHANGED txIncoming
     ELSE txIncoming' = t /\ UNCHANGED txOutgoing
  /\ UNCHANGED <<hoFormData, hoCalls>>
  /\ HoFrame

(* handleInputChange of NurseHandover *)
HoInputChange(field, value) ==
  /\ hoFormData' = [hoFormData EXCEPT ![field] = Str(value)]
  /\ UNCHANGED <<txOutgoing, txIncoming, hoCalls>>
  /\ HoFrame

(* A click on Auto-Map Fields of a section, up to the await of postJSON *)
HoMapClick(which) ==
  /\ Len(hoCalls) < MaxMapCalls
  /\ LET text == Trim(IF which = "outgoing" THEN txOutgoing ELSE txIncoming)
     IN /\ text # <<>>
        /\ hoCalls' = Append(hoCalls, [which |-> which, text |-> text,
                                       reply |-> NoReply])
  /\ UNCHANGED <<hoFormData, txOutgoing, txIncoming>>
  /\ HoFrame

HoServerReply(r) ==
  /\ hoCalls # <<>>
  /\ Head(hoCalls).reply = NoReply
  /\ hoCalls' = [hoCalls EXCEPT ![1].reply = r]
  /\ UNCHANGED <<hoFormData, txOutgoing, txIncoming>>
  /\ HoFrame

(* The handler after its await: setFormData, or the catch block (a toast) *)
HoMapSettle ==
  /\ hoCalls # <<>>
  /\ Head(hoCalls).reply # NoReply
  /\ LET c == Head(hoCalls)
     IN hoFormData' =
          IF c.which = "outgoing"
          THEN IF OutgoingThrows(c.reply) THEN hoFormData
               ELSE mapOutgoingFromTranscript(hoFormData, c.text, c.reply)
          ELSE IF IncomingReturnsEarly(c.reply) \/ IncomingThrows(c.reply)
               THEN hoFormData
               ELSE mapIncomingFromTranscript(hoFormData, c.text, c.reply)
  /\ hoCalls' = Tail(hoCalls)
  /\ UNCHANGED <<txOutgoing, txIncoming>>
  /\ HoFrame

HoNext ==
  \/ \E which \in {"outgoing", "incoming"} : \E t \in HoTranscripts :
       HoSetTranscript(which, t)
  \/ \E v \in {<<>>, <<"u">>} : HoInputChange("medsGiven", v)
  \/ \E which \in {"outgoing", "incoming"} : HoMapClick(which)
  \/ \E r \in HoReplies : HoServerReply(r)
  \/ HoMapSettle

SpecHandover == HoInit /\ [][HoNext]_vars

(* The response of an outgoing mapping call is a failure of the call, empty,
   or malformed *)
HoBadReply(m) ==
  \/ m.kind \in {"error", "null"}
  \/ m.body = EmptyObj
  \/ OutgoingThrows(m)

(* C14: when the outgoing mapping call throws or its response is empty or
   malformed, the handler fills patient status, medications given and
   pending tasks from the regex extraction over the transcript wherever the
   transcript has a match *)
C14_HandoverFallback ==
  [][ (/\ hoCalls # <<>>
       /\ Head(hoCalls).which = "outgoing"
       /\ Head(hoCalls).reply # NoReply
       /\ HoBadReply(Head(hoCalls).reply)
       /\ hoCalls' = Tail(hoCalls))
      => LET text == Head(hoCalls).text
         IN /\ fallbackStatus(text) # <<>> =>
                 hoFormData'["currentPatientStatus"] = Str(fallbackStatus(text))
            /\ fallbackMeds(text) # <<>> =>
                 hoFormData'["medsGiven"] = Str(fallbackMeds(text))
            /\ fallbackTasks(text) # <<>> =>
                 hoFormData'["medsDue"] = Str(fallbackTasks(text)) ]_vars

(* The same for the responses that do not make the handler throw: the JSON
   null and the empty object *)
C14_FallbackWithoutThrow ==
  [][ (/\ hoCalls # <<>>
       /\ Head(hoCalls).which = "outgoing"
       /\ Head(hoCalls).reply # NoReply
       /\ HoBadReply(Head(hoCalls).reply)
       /\ ~OutgoingThrows(Head(hoCalls).reply)
       /\ hoCalls' = Tail(hoCalls))
      => LET text == Head(hoCalls).text
         IN /\ fallbackStatus(text) # <<>> =>
                 hoFormData'["currentPatientStatus"] = Str(fallbackStatus(text))
            /\ fallbackMeds(text) # <<>> =>
                 hoFormData'["medsGiven"] = Str(fallbackMeds(text))
            /\ fallbackTasks(text) # <<>> =>
                 hoFormData'["medsDue"] = Str(fallbackTasks(text)) ]_vars

(* The fields of the outgoing section that have a regex fallback *)
OutgoingFallbackFields == {"currentPatientStatus", "medsGiven", "medsDue"}

(* The value the mapping response m offers for a field: the first operand of
   the || chain of mapOutgoingFromTranscript *)
ApiValue(m, f) ==
  CASE f = "currentPatientStatus" -> OptGet(m, "patient_condition")
    [] f = "medsGiven" -> JoinOrEmpty(OptGet(m, "medications"))
    [] f = "medsDue" -> JoinOrEmpty(OptGet(m, "pending_tasks"))

(* The regex extraction for a field: the second operand of the chain *)
FallbackValue(text, f) ==
  CASE f = "currentPatientStatus" -> fallbackStatus(text)
    [] f = "medsGiven" -> fallbackMeds(text)
    [] f = "medsDue" -> fallbackTasks(text)

(* C27: one outgoing mapping action never uses both the mapping response and
   the regex fallback: the fields it writes take their values all from the
   response or all from the extraction over the transcript *)
C27_NeverBothSources ==
  [][ (/\ HoMapSettle
       /\ Head(hoCalls).which = "outgoing"
       /\ ~OutgoingThrows(Head(hoCalls).reply))
      => LET m == Head(hoCalls).reply
             text == Head(hoCalls).text
             fromResponse ==
               {f \in OutgoingFallbackFields :
                  Truthy(ApiValue(m, f)) /\ hoFormData'[f] = ApiValue(m, f)}
             fromFallback ==
               {f \in OutgoingFallbackFields :
                  /\ ~Truthy(ApiValue(m, f))
                  /\ FallbackValue(text, f) # <<>>
                  /\ hoFormData'[f] = Str(FallbackValue(text, f))}
         IN fromResponse = {} \/ fromFallback = {} ]_vars

---------------------------------------------------------------------------
(* NurseHandover: overlapping Auto-Map calls of the outgoing section and the
   vitals of the record.  The Auto-Map button has no loading flag, so a
   second click starts a second call while the first is outstanding; each
   call keeps the transcript and the formData of the render it was clicked
   in. *)

MaxOverlap == 2

W_bp == <<"b", "p">>
W_blood_pressure == 
  <<"b", "l", "o", "o", "d", " ", "p", "r", "e", "s", "s", "u", "r", "e">>
W_by == <<"b", "y">>
W_hr == <<"h", "r">>
W_heart_rate == <<"h", "e", "a", "r", "t", " ", "r", "a", "t", "e">>
W_temp == <<"t", "e", "m", "p">>
W_temperature == <<"t", "e", "m", "p", "e", "r", "a", "t", "u", "r", "e">>
W_spo == <<"s", "p", "o">>
W_oxygen == <<"o", "x", "y", "g", "e", "n">>

NoMatch == <<>>

Leftmost(starts) == CHOOSE x \in starts : \A y \in starts : x <= y

(* The position after \s* from position i *)
SkipSpaces(s, i) == i + SpaceRun(s, i)

(* (\d+) at position i: the captured digits, <<>> when there are none *)
DigitsAt(s, i) == SubSeq(s, i, i + DigitRun(s, i) - 1)

(* s.match(/word\s*(\d+)/i): <<the capture>>, or NoMatch *)
NumAfter(s, word) ==
  LET at(i) == SkipSpaces(s, i + Len(word))
      starts == {i \in 1..Len(s) : WordAt(s, i, word) /\ DigitRun(s, at(i)) > 0}
  IN IF starts = {} THEN NoMatch ELSE <<DigitsAt(s, at(Leftmost(starts)))>>

(* (\d+)\s*sep\s*(\d+) at position i: the two captures, or NoMatch *)
PairAt(s, i, sep) ==
  LET j == SkipSpaces(s, i + DigitRun(s, i))
      k == SkipSpaces(s, j + Len(sep))
  IN IF DigitRun(s, i) > 0 /\ WordAt(s, j, sep) /\ DigitRun(s, k) > 0
     THEN <<DigitsAt(s, i), DigitsAt(s, k)>>
     ELSE NoMatch

(* s.match(/word\s*(\d+)\s*sep\s*(\d+)/i); the word is empty for
   /(\d+)\s*by\s*(\d+)/i *)
PairAfter(s, word, sep) ==
  LET at(i) == IF word = <<>> THEN i ELSE SkipSpaces(s, i + Len(word))
      starts == {i \in 1..Len(s) :
                   WordAt(s, i, word) /\ PairAt(s, at(i), sep) # NoMatch}
  IN IF starts = {} THEN NoMatch ELSE PairAt(s, at(Leftmost(starts)), sep)

(* (\d+(?:\.\d+)?) at position i *)
DecimalAt(s, i) ==
  LET j == i + DigitRun(s, i)
  IN IF j <= Len(s) /\ s[j] = "." /\ DigitRun(s, j + 1) > 0
     THEN SubSeq(s, i, j + DigitRun(s, j + 1))
     ELSE DigitsAt(s, i)

(* s.match(/word\s*(\d+(?:\.\d+)?)/i) *)
DecimalAfter(s, word) ==
  LET at(i) == SkipSpaces(s, i + Len(word))
      starts == {i \in 1..Len(s) : WordAt(s, i, word) /\ DigitRun(s, at(i)) > 0}
  IN IF starts = {} THEN NoMatch ELSE <<DecimalAt(s, at(Leftmost(starts)))>>

(* s.match(/spo2?\s*(\d+)/i): the optional 2 is taken when digits follow
   it, and is the capture itself otherwise *)
Spo2After(s) ==
  LET with2(i) == SkipSpaces(s, i + 4)
      takes2(i) == /\ i + 3 <= Len(s)
                   /\ s[i + 3] = "2"
                   /\ DigitRun(s, with2(i)) > 0
      at(i) == IF takes2(i) THEN with2(i) ELSE SkipSpaces(s, i + 3)
      starts == {i \in 1..Len(s) : WordAt(s, i, W_spo) /\ DigitRun(s, at(i)) > 0}
  IN IF starts = {} THEN NoMatch ELSE <<DigitsAt(s, at(Leftmost(starts)))>>

(* a || b of two match results *)
OrMatch(a, b) == IF a # NoMatch THEN a ELSE b

(* m?.vital_signs || text, for a response on which the handler does not
   throw *)
vitalSigns(text, m) ==
  LET v == OptGet(m, "vital_signs") IN IF Truthy(v) THEN v.s ELSE text

bpMatch(vs) ==
  OrMatch(PairAfter(vs, W_bp, <<"/">>),
          OrMatch(PairAfter(vs, W_blood_pressure, <<"/">>),
                  PairAfter(vs, <<>>, W_by)))

hrMatch(vs) ==
  OrMatch(NumAfter(vs, W_hr), OrMatch(NumAfter(vs, W_heart_rate), NumAfter(vs, W_hr)))

tempMatch(vs) ==
  OrMatch(DecimalAfter(vs, W_temp),
          OrMatch(DecimalAfter(vs, W_temperature), NumAfter(vs, W_temp)))

spo2Match(vs) ==
  OrMatch(Spo2After(vs), OrMatch(NumAfter(vs, W_oxygen), NumAfter(vs, W_spo)))

(* clamp(n, min, max) *)
clamp(n, min, max) ==
  LET low == IF max < n THEN max ELSE n IN IF min > low THEN min ELSE low

(* The four constants bp, hr, temp, spo2 of mapOutgoingFromTranscript: a
   match, or the vitals of the formData the handler closed over *)
parsedVitals(closure, vs) ==
  LET bpM == bpMatch(vs)
      hrM == hrMatch(vs)
      tempM == tempMatch(vs)
      spo2M == spo2Match(vs)
  IN [bp |-> IF bpM # NoMatch THEN bpM[1] \o <<"/">> \o bpM[2] ELSE closure.bp,
      hr |-> IF hrM # NoMatch THEN hrM[1] ELSE closure.hr,
      temp |-> IF tempM # NoMatch THEN tempM[1] \o <<"°", "F">> ELSE closure.temp,
      spo2 |-> IF spo2M # NoMatch
               THEN NatToStr(clamp(DigitsToNat(spo2M[1]), 0, 100))
               ELSE closure.spo2]

VitalsFields == {"bp", "hr", "temp", "spo2"}

(* The regular expression of a vitals field matches the parsed string *)
VitalsMatch(vs, f) ==
  CASE f = "bp" -> bpMatch(vs) # NoMatch
    [] f = "hr" -> hrMatch(vs) # NoMatch
    [] f = "temp" -> tempMatch(vs) # NoMatch
    [] f = "spo2" -> spo2Match(vs) # NoMatch

T_OvVitals == <<"B", "P", " ", "1", "2", "0", "/", "8", "0", " ", "h", "r", "7", "2">>
T_OvBy == <<"9", "0", " ", "b", "y", " ", "6", "0", ".", " ", "t", "e", "m", "p", " ", "9", "8", ".", "6", " ", "S", "p", "O", "2", " ", "1", "2", "0">>
T_OvReplyBp == <<"b", "l", "o", "o", "d", " ", "p", "r", "e", "s", "s", "u", "r", "e", " ", "1", "1", "0", "/", "7", "0">>
T_OvReplyHr == <<"h", "e", "a", "r", "t", " ", "r", "a", "t", "e", " ", "8", "8", " ", "o", "x", "y", "g", "e", "n", "9", "7">>
T_OvEditBp == <<"1", "3", "0", "/", "8", "5">>
T_OvEditHr == <<"6", "4">>

OvTranscripts == {<<"x">>, T_OvVitals, T_OvBy}

OvBodies ==
  { EmptyObj,
    Obj1("patient_condition", Str(<<"o", "k">>)),
    [patient_condition |-> Str(<<"i", "l", "l">>), vital_signs |-> Str(T_OvReplyBp)],
    Obj1("vital_signs", Str(T_OvReplyHr)) }

OvReplies ==
  {[kind |-> "object", body |-> b] : b \in OvBodies}
    \cup {[kind |-> "error", body |-> EmptyObj]}

OvInit ==
  /\ hoFormData = hoInitialData
  /\ txOutgoing = <<>>
  /\ txIncoming = <<>>
  /\ hoCalls = <<>>
  /\ vitals = initialVitals
  /\ ovCalls = {}
  /\ ovIssued = 0
  /\ ovArrived = <<>>
  /\ MergeIdle
  /\ AdmIdle
  /\ RecIdle
  /\ HostIdle
  /\ DsIdle
  /\ PfIdle
  /\ SaveIdle
  /\ DateIdle
  /\ FieldIdle

OvFrame ==
  UNCHANGED <<txIncoming, hoCalls, mergeVars, admVars, recVars, monVars,
              hostVars, dsVars, pfVars, saveVars, dateVars, fieldVars>>

(* setTxOutgoing *)
OvSetTranscript(t) ==
  /\ txOutgoing' = t
  /\ UNCHANGED <<hoFormData, vitals, ovCalls, ovIssued, ovArrived>>
  /\ OvFrame

(* handleInputChange('vitals.<field>', value) *)
OvVitalsChange(field, value) ==
  /\ vitals' = [vitals EXCEPT ![field] = value]
  /\ UNCHANGED <<hoFormData, txOutgoing, ovCalls, ovIssued, ovArrived>>
  /\ OvFrame

(* A click on Auto-Map Fields of the outgoing section, up to the await of
   postJSON: the handler keeps the trimmed transcript and the formData of
   the render of the click *)
OvMapClick ==
  /\ ovIssued < MaxOverlap
  /\ Trim(txOutgoing) # <<>>
  /\ ovIssued' = ovIssued + 1
  /\ ovCalls' = ovCalls \cup {[id |-> ovIssued + 1, text |-> Trim(txOutgoing),
                               closure |-> vitals]}
  /\ UNCHANGED <<hoFormData, txOutgoing, vitals, ovArrived>>
  /\ OvFrame

(* The response r of an outstanding call arrives and its handler runs on:
   setFormData(prev => ...), or the catch block (a toast) *)
OvMapSettle(c, r) ==
  /\ c \in ovCalls
  /\ ovCalls' = ovCalls \ {c}
  /\ ovArrived' = Append(ovArrived, [id |-> c.id, reply |-> r])
  /\ IF OutgoingThrows(r)
     THEN UNCHANGED <<hoFormData, vitals>>
     ELSE /\ hoFormData' = mapOutgoingFromTranscript(hoFormData, c.text, r)
          /\ vitals' = parsedVitals(c.closure, vitalSigns(c.text, r))
  /\ UNCHANGED <<txOutgoing, ovIssued>>
  /\ OvFrame

OvNext ==
  \/ \E t \in OvTranscripts : OvSetTranscript(t)
  \/ OvVitalsChange("bp", T_OvEditBp)
  \/ OvVitalsChange("hr", T_OvEditHr)
  \/ OvMapClick
  \/ \E c \in ovCalls : \E r \in OvReplies : OvMapSettle(c, r)

SpecOverlap == OvInit /\ [][OvNext]_vars

(* The response that arrived last, once a response has arrived *)
LastArrived == ovArrived[Len(ovArrived)]

(* C26: two overlapping mapping calls of the outgoing section are applied in
   the order their responses arrive: every field for which the response that
   arrived last supplies a value holds that value, whichever of the two
   calls was issued first; the vitals a response's vital_signs supply are
   written when it is applied, whatever the form held before *)
C26_LastArrivedResponseWins ==
  /\ [](ovArrived # <<>> /\ ~OutgoingThrows(LastArrived.reply) =>
          \A f \in OutgoingFallbackFields :
            Truthy(ApiValue(LastArrived.reply, f)) =>
              hoFormData[f] = ApiValue(LastArrived.reply, f))
  /\ [][ \A c \in ovCalls : \A r \in OvReplies :
           (OvMapSettle(c, r) /\ ~OutgoingThrows(r)
              /\ Truthy(OptGet(r, "vital_signs"))) =>
             LET supplied ==
                   parsedVitals(initialVitals, OptGet(r, "vital_signs").s)
             IN \A f \in VitalsFields :
                  supplied[f] # initialVitals[f] => vitals'[f] = supplied[f]
       ]_vars

(* The call issued first was answered last, both responses supplied a
   patient condition, and the form holds the one of the call issued first *)
C26_Witness ==
  /\ Len(ovArrived) = 2
  /\ ovArrived[1].id = 2
  /\ ovArrived[2].id = 1
  /\ Truthy(OptGet(ovArrived[1].reply, "patient_condition"))
  /\ Truthy(OptGet(ovArrived[2].reply, "patient_condition"))
  /\ OptGet(ovArrived[1].reply, "patient_condition")
       # OptGet(ovArrived[2].reply, "patient_condition")
  /\ hoFormData["currentPatientStatus"]
       = OptGet(ovArrived[2].reply, "patient_condition")

(* Neither the vital_signs of the response nor the transcript of the call
   matches the regular expressions of vitals field f *)
NeitherMatches(c, r, f) ==
  /\ ~VitalsMatch(c.text, f)
  /\ LET v == OptGet(r, "vital_signs")
     IN Truthy(v) => ~VitalsMatch(v.s, f)

(* C30: when the response of an outgoing mapping call is applied, a vitals
   field (bp, hr, temp, spo2) for which neither the response nor the
   transcript yields a match keeps the value it holds at that moment; an
   edit made to it while the call was outstanding is not reverted to the
   value of the time the call was issued *)
C30_UnmatchedVitalsKeepCurrentValue ==
  [][ \A c \in ovCalls : \A r \in OvReplies :
        (OvMapSettle(c, r) /\ ~OutgoingThrows(r)) =>
          \A f \in VitalsFields :
            NeitherMatches(c, r, f) => vitals'[f] = vitals[f] ]_vars

----------------------------------------------------------------------------
(* SpecDoctorSlip: the DoctorSlip page after its patient has been loaded
   (isLoading false, patient set); dsError is error !== null *)

DsFields ==
  {"chief_complaint", "hpi", "physical_exam", "diagnosis", "orders",
   "prescriptions", "advice"}

dsEmptyForm == [f \in DsFields |-> Str(<<>>)]

(* The page renders its form, Recorder and buttons: with an error set the
   component returns the "Error Loading Patient" card instead *)
DsFormShown == ~dsError

DsBodies ==
  { EmptyObj,
    Obj1("diagnosis", Str(<<"d">>)),
    Obj1("diagnosis", Null),
    Obj1("hpi", Num(7)),
    Obj1("advice", Str(<<>>)) }

DsReplies ==
  {[kind |-> "object", body |-> b] : b \in DsBodies}
    \cup {[kind |-> "null", body |-> EmptyObj], [kind |-> "error", body |-> EmptyObj]}

DsInit ==
  /\ dsForm = dsEmptyForm
  /\ dsTranscript = <<>>
  /\ dsError = FALSE
  /\ dsCalls = <<>>
  /\ MergeIdle
  /\ AdmIdle
  /\ RecIdle
  /\ HostIdle
  /\ HoIdle
  /\ PfIdle
  /\ SaveIdle /\ DateIdle /\ FieldIdle /\ OvIdle

DsFrame ==
  UNCHANGED <<mergeVars, admVars, recVars, monVars, hostVars, hoVars, pfVars,
              saveVars, dateVars, fieldVars, ovVars>>

(* onChange of a field of the form *)
DsEditField(f, v) ==
  /\ DsFormShown
  /\ dsForm' = [dsForm EXCEPT ![f] = Str(v)]
  /\ UNCHANGED <<dsTranscript, dsError, dsCalls>>
  /\ DsFrame

(* setTranscript: typing in the transcript box or a transcript delivered by
   the Recorder, which is rendered only with the form *)
DsSetTranscript(t) ==
  /\ DsFormShown
  /\ dsTranscript' = t
  /\ UNCHANGED <<dsForm, dsError, dsCalls>>
  /\ DsFrame

(* mapNote up to its await; the Auto-Map button is rendered with the form
   for a non-blank transcript *)
DsMapClick ==
  /\ DsFormShown
  /\ Trim(dsTranscript) # <<>>
  /\ Len(dsCalls) < MaxMapCalls
  /\ dsError' = FALSE
  /\ dsCalls' = Append(dsCalls, NoReply)
  /\ UNCHANGED <<dsForm, dsTranscript>>
  /\ DsFrame

DsServerReply(r) ==
  /\ dsCalls # <<>>
  /\ Head(dsCalls) = NoReply
  /\ dsCalls' = [dsCalls EXCEPT ![1] = r]
  /\ UNCHANGED <<dsForm, dsTranscript, dsError>>
  /\ DsFrame

(* m?.key ?? prev.key *)
Nullish(v, prev) == IF v.t \in {"undefined", "null"} THEN prev ELSE v

(* mapNote after its await: setForm, or the catch block with setError *)
mapNote(prev, m) == [f \in DsFields |-> Nullish(OptGet(m, f), prev[f])]

DsMapSettle ==
  /\ dsCalls # <<>>
  /\ Head(dsCalls) # NoReply
  /\ IF Head(dsCalls).kind = "error"
     THEN /\ dsError' = TRUE
          /\ dsForm' = dsForm
     ELSE /\ dsError' = dsError
          /\ dsForm' = mapNote(dsForm, Head(dsCalls))
  /\ dsCalls' = Tail(dsCalls)
  /\ UNCHANGED dsTranscript
  /\ DsFrame

(* Retry on the error card: window.location.reload() *)
DsReload ==
  /\ dsError
  /\ dsForm' = dsEmptyForm
  /\ dsTranscript' = <<>>
  /\ dsError' = FALSE
  /\ dsCalls' = <<>>
  /\ DsFrame

DsNext ==
  \/ \E f \in {"diagnosis", "advice"} : \E v \in {<<>>, <<"u">>} : DsEditField(f, v)
  \/ \E t \in Transcripts : DsSetTranscript(t)
  \/ DsMapClick
  \/ \E r \in DsReplies : DsServerReply(r)
  \/ DsMapSettle
  \/ DsReload

SpecDoctorSlip == DsInit /\ [][DsNext]_vars

(* C15: when a mapping call of the page fails, the form keeps its values and
   is still displayed and editable, and no error state replaces the page *)
C15_FailedMappingNeverBlocks ==
  [][ (/\ dsCalls # <<>>
       /\ Head(dsCalls) # NoReply
       /\ Head(dsCalls).kind = "error"
       /\ dsCalls' = Tail(dsCalls))
      => (dsForm' = dsForm /\ DsFormShown') ]_vars

----------------------------------------------------------------------------
(* SpecPatientFile: the PatientFile page.  Of each section's record the
   first two fields are followed *)

Sections == 1..12

FirstKey(n) ==
  CASE
       n = 1 -> "patient_name"
    [] n = 2 -> "hospital_number"
    [] n = 3 -> "progress_date"
    [] n = 4 -> "diagnostics_laboratory"
    [] n = 5 -> "vitals_bp"
    [] n = 6 -> "discharge_likely_date"
    [] n = 7 -> "follow_up_instructions"
    [] n = 8 -> "record_date"
    [] n = 9 -> "chart_date"
    [] n = 10 -> "patient_name"
    [] n = 11 -> "patient_name"
    [] n = 12 -> "patient_name"

SecondKey(n) ==
  CASE
       n = 1 -> "age"
    [] n = 2 -> "name"
    [] n = 3 -> "progress_time"
    [] n = 4 -> "diagnostics_radiology"
    [] n = 5 -> "vitals_pulse"
    [] n = 6 -> "discharge_complete_diagnosis"
    [] n = 7 -> "cross_consultation_diagnosis"
    [] n = 8 -> "record_time"
    [] n = 9 -> "chart_time"
    [] n = 10 -> "hospital_number"
    [] n = 11 -> "patient_age"
    [] n = 12 -> "hospital_number"

SectionKeys(n) == {FirstKey(n), SecondKey(n)}

(* The value a field has in the useState initial object *)
FieldDefault(k) == IF k \in {"age", "patient_age"} THEN Num(0) ELSE Str(<<>>)

(* The initial object of useState for sectionNData *)
SectionDefault(n) == [k \in SectionKeys(n) |-> FieldDefault(k)]

(* The object handleClearCurrentSection hands to setSectionNData *)
ClearedSection(n) == IF n \in {2, 3} THEN EmptyObj ELSE SectionDefault(n)

(* { ...prev, ...data } *)
Spread(prev, data) ==
  LET a == IF prev = Null THEN EmptyObj ELSE prev
  IN [k \in (DOMAIN a) \cup (DOMAIN data) |->
        IF k \in DOMAIN data THEN data[k] ELSE a[k]]

(* The sections in which the model types and maps *)
WorkSections == {1, 2}

PfBodies(n) ==
  { EmptyObj,
    Obj1(FirstKey(n), Str(<<"m">>)),
    Obj1(FirstKey(n), Null) }

(* What postJSON / getJSON gives: an object, the JSON null, or a throw *)
PfReplies(n) ==
  {[kind |-> "object", body |-> b] : b \in PfBodies(n)}
    \cup {[kind |-> "null", body |-> EmptyObj], [kind |-> "error", body |-> EmptyObj]}

PfInit ==
  /\ currentSection = 1
  /\ sectionData = [n \in Sections |-> SectionDefault(n)]
  /\ pfTranscript = <<>>
  /\ pfIsLoading = TRUE
  /\ pfCalls = <<>>
  /\ pfLoadPending = TRUE
  /\ MergeIdle
  /\ AdmIdle
  /\ RecIdle
  /\ HostIdle
  /\ HoIdle
  /\ DsIdle
  /\ SaveIdle /\ DateIdle /\ FieldIdle /\ OvIdle

PfFrame ==
  UNCHANGED <<mergeVars, admVars, recVars, monVars, hostVars, hoVars, dsVars,
              saveVars, dateVars, fieldVars, ovVars>>

(* loadSection1Data after its await: setSection1Data(data), or the catch *)
loadSection1Data(r) ==
  /\ pfLoadPending
  /\ pfLoadPending' = FALSE
  /\ sectionData' = [sectionData EXCEPT ![1] =
                       CASE r.kind = "error" -> @
                         [] r.kind = "null" -> Null
                         [] OTHER -> r.body]
  /\ pfIsLoading' = FALSE
  /\ UNCHANGED <<currentSection, pfTranscript, pfCalls>>
  /\ PfFrame

(* setCurrentSection(section.id) *)
PfGoToSection(n) ==
  /\ currentSection' = n
  /\ UNCHANGED <<sectionData, pfTranscript, pfIsLoading, pfCalls, pfLoadPending>>
  /\ PfFrame

(* onChange of an input of the current section, rendered while not loading *)
PfEditField(k, v) ==
  /\ ~pfIsLoading
  /\ k \in SectionKeys(currentSection)
  /\ sectionData' = [sectionData EXCEPT ![currentSection] =
                       Spread(@, Obj1(k, Str(v)))]
  /\ UNCHANGED <<currentSection, pfTranscript, pfIsLoading, pfCalls, pfLoadPending>>
  /\ PfFrame

(* handleTranscribe *)
handleTranscribe(text) ==
  /\ pfTranscript' = text
  /\ UNCHANGED <<currentSection, sectionData, pfIsLoading, pfCalls, pfLoadPending>>
  /\ PfFrame

(* handleMapFields up to its await: the button is rendered for a non-empty
   transcript and disabled while isLoading *)
handleMapFields ==
  /\ pfTranscript # <<>>
  /\ ~pfIsLoading
  /\ Len(pfCalls) < MaxMapCalls
  /\ IF Trim(pfTranscript) = <<>>
     THEN UNCHANGED <<pfIsLoading, pfCalls>>
     ELSE /\ pfIsLoading' = TRUE
          /\ pfCalls' = Append(pfCalls, [section |-> currentSection,
                                         reply |-> NoReply])
  /\ UNCHANGED <<currentSection, sectionData, pfTranscript, pfLoadPending>>
  /\ PfFrame

PfServerReply(r) ==
  /\ pfCalls # <<>>
  /\ Head(pfCalls).reply = NoReply
  /\ r \in PfReplies(Head(pfCalls).section)
  /\ pfCalls' = [pfCalls EXCEPT ![1].reply = r]
  /\ UNCHANGED <<currentSection, sectionData, pfTranscript, pfIsLoading, pfLoadPending>>
  /\ PfFrame

(* updateCurrentSectionData, with the currentSection of the render in which
   the handler was created *)
updateCurrentSectionData(data, n, mappedData) ==
  [data EXCEPT ![n] = Spread(@, mappedData)]

(* handleMapFields after its await *)
PfMapSettle ==
  /\ pfCalls # <<>>
  /\ Head(pfCalls).reply # NoReply
  /\ LET c == Head(pfCalls)
     IN sectionData' =
          IF c.reply.kind = "object" /\ DOMAIN c.reply.body # {}
          THEN updateCurrentSectionData(sectionData, c.section, c.reply.body)
          ELSE sectionData
  /\ pfIsLoading' = FALSE
  /\ pfCalls' = Tail(pfCalls)
  /\ UNCHANGED <<currentSection, pfTranscript, pfLoadPending>>
  /\ PfFrame

(* handleClearCurrentSection; its button is disabled while isLoading *)
handleClearCurrentSection ==
  /\ ~pfIsLoading
  /\ sectionData' = [sectionData EXCEPT ![currentSection] =
                       ClearedSection(currentSection)]
  /\ UNCHANGED <<currentSection, pfTranscript, pfIsLoading, pfCalls, pfLoadPending>>
  /\ PfFrame

PfNext ==
  \/ \E r \in PfReplies(1) : loadSection1Data(r)
  \/ \E n \in Sections : PfGoToSection(n)
  \/ currentSection \in WorkSections /\ \E v \in {<<"u">>} :
       PfEditField(FirstKey(currentSection), v)
  \/ \E t \in Transcripts : handleTranscribe(t)
  \/ currentSection \in WorkSections /\ handleMapFields
  \/ \E r \in PfReplies(1) \cup PfReplies(2) : PfServerReply(r)
  \/ PfMapSettle
  \/ handleClearCurrentSection

SpecPatientFile == PfInit /\ [][PfNext]_vars

(* C16: a clear replaces the record of the current section, in one step,
   with the complete default object of that section *)
C16_ClearGivesDefaults ==
  [][ handleClearCurrentSection =>
        sectionData'[currentSection] = SectionDefault(currentSection) ]_vars

(* The record holds a defined value (not undefined, not null) in each of
   its fields *)
AllDefined(d, ks) ==
  /\ d # Null
  /\ \A k \in ks : Get(d, k) \notin {Undefined, Null}

(* C17: every field of every FormRecord always holds a defined value,
   whatever a mapping or load response contains *)
C17_FieldsAlwaysDefined ==
  \A n \in Sections : AllDefined(sectionData[n], SectionKeys(n))

----------------------------------------------------------------------------
(* SpecSave: the Admission page, its form and Save & Proceed, for a new
   patient (editingPatient null) *)

(* /^\d{2}:\d{2}$/ *)
IsHhMm(s) ==
  /\ Len(s) = 5
  /\ \A i \in {1, 2, 4, 5} : IsDigit(s[i])
  /\ s[3] = ":"

(* The tests of saveAndProceed that end it before any request *)
SaveRefused(f) ==
  \/ ~Truthy(f["name"])
  \/ ~Truthy(f["age"])
  \/ Truthy(f["admission_date"]) /\ ~IsIsoDate(f["admission_date"].s)
  \/ Truthy(f["admission_time"]) /\ ~IsHhMm(f["admission_time"].s)

(* What POST /api/patients gives: a patient with an id, an object without
   one, or a throw *)
SaveReplies == {"created", "noid", "error"}

(* saveAndProceed up to its await, or to the return of a failed test and
   the finally block *)
saveAndProceed ==
  /\ ~isSaving
  /\ ~navigated
  /\ Len(saveCalls) < MaxMapCalls
  /\ IF SaveRefused(form)
     THEN /\ admError' = TRUE
          /\ UNCHANGED <<isSaving, saveCalls>>
     ELSE /\ admError' = FALSE
          /\ isSaving' = TRUE
          /\ saveCalls' = Append(saveCalls, "none")
  /\ UNCHANGED <<form, txAdmission, isMapping, mapCalls, staleCalls, navigated, mergeVars,
                 recVars, monVars, hostVars, hoVars, dsVars, pfVars, dateVars, fieldVars, ovVars>>

SaveServerReply(r) ==
  /\ saveCalls # <<>>
  /\ Head(saveCalls) = "none"
  /\ saveCalls' = [saveCalls EXCEPT ![1] = r]
  /\ UNCHANGED <<admVars, isSaving, navigated, mergeVars, recVars, monVars,
                 hostVars, hoVars, dsVars, pfVars, dateVars, fieldVars, ovVars>>

(* saveAndProceed after its await: nav to the doctor slip, or the catch
   block; then finally *)
SaveSettle ==
  /\ saveCalls # <<>>
  /\ Head(saveCalls) # "none"
  /\ IF Head(saveCalls) = "created"
     THEN navigated' = TRUE /\ admError' = admError
     ELSE navigated' = navigated /\ admError' = TRUE
  /\ isSaving' = FALSE
  /\ saveCalls' = Tail(saveCalls)
  /\ UNCHANGED <<form, txAdmission, isMapping, mapCalls, staleCalls, mergeVars, recVars,
                 monVars, hostVars, hoVars, dsVars, pfVars, dateVars, fieldVars, ovVars>>

SaveInit == AdmInit

SaveNext ==
  \/ ~navigated /\ \E f \in FormFields : \E v \in UserValues(f) : AdmEditField(f, v)
  \/ ~navigated /\ AdmClearForm
  \/ saveAndProceed
  \/ \E r \in SaveReplies : SaveServerReply(r)
  \/ SaveSettle

SpecSave == SaveInit /\ [][SaveNext]_vars

(* The raw input has, in each field it carries, a value of the type
   RawAdmissionData declares for it *)
WellTyped(b) ==
  \A k \in DOMAIN b : b[k].t = "string" \/ (k = "age" /\ b[k].t = "number")

(* C18: postProcessAdmission returns a record for every raw input of the
   declared type, whatever validateProcessedData reports, and for every form
   state a click on Save & Proceed issues the persistence request *)
C18_ValidationNeverBlocksSave ==
  /\ [](\A b \in MapBodies : WellTyped(b) => ~postProcessThrows(b))
  /\ [][ saveAndProceed => Len(saveCalls') = Len(saveCalls) + 1 ]_vars

--------------------------------------------------------------------------
(* SpecDate: normalizeDate applied to every drawn input *)

DayTexts == {<<"1">>, <<"2", "5">>}
MonthTexts == {<<"2">>, <<"1", "2">>}
YearTexts == {<<"2", "4">>, <<"1", "2", "3">>, <<"2", "0", "2", "4">>}
DateSeps == {"-", "/"}

(* The texts /^\d{1,2}[-/]\d{1,2}[-/]\d{2,4}$/ accepts, built from the drawn
   days, months, years and separators *)
DmyText(d, s1, m, s2, y) == d \o <<s1>> \o m \o <<s2>> \o y

DmyTexts ==
  {DmyText(d, s1, m, s2, y) :
     d \in DayTexts, s1 \in DateSeps, m \in MonthTexts, s2 \in DateSeps,
     y \in YearTexts}

T_Iso == <<"2", "0", "2", "4", "-", "1", "2", "-", "2", "5">>
T_Today == <<"T", "o", "d", "a", "y">>
T_Tomorrow == <<"t", "o", "m", "o", "r", "r", "o", "w">>
T_Yesterday == <<"Y", "E", "S", "T", "E", "R", "D", "A", "Y">>

OtherDateTexts ==
  {<<>>, <<" ">>, <<"x">>, <<"1", "2", "-", "2", "0", "2", "4">>,
   <<"2", "0", "2", "4", "-", "1", "-", "5">>,
   <<"2", "5", ".", "1", "2", ".", "2", "0", "2", "4">>}

DateTexts ==
  DmyTexts \cup {T_Iso, T_Today, T_Tomorrow, T_Yesterday} \cup OtherDateTexts

(* The values of the parameter: absent, or a text, bare or with white space
   around it *)
DateInputs ==
  {Undefined, Null}
    \cup {Str(t) : t \in DateTexts}
    \cup {Str(<<" ">> \o t \o <<" ">>) : t \in DateTexts}

DateInit ==
  /\ ndDate \in DateInputs
  /\ ndOut = <<>>
  /\ ndDone = FALSE
  /\ MergeIdle
  /\ AdmIdle
  /\ RecIdle
  /\ HostIdle
  /\ HoIdle /\ DsIdle /\ PfIdle /\ SaveIdle /\ FieldIdle /\ OvIdle

DateApply ==
  /\ ~ndDone
  /\ ndOut' = normalizeDate(ndDate)
  /\ ndDone' = TRUE
  /\ UNCHANGED <<ndDate, mergeVars, admVars, recVars, monVars, hostVars,
                 hoVars, dsVars, pfVars, saveVars, fieldVars, ovVars>>

DateNext == DateApply

SpecDate == DateInit /\ [][DateNext]_vars

(* The text of the input without the white space around it; none for an
   absent input *)
DateText == IF ndDate.t = "string" THEN Trim(ndDate.s) ELSE <<>>

YearOf(y) == IF Len(y) = 2 THEN <<"2", "0">> \o y ELSE y

(* What the sentence about the day-month-year branch says of the result, for
   the years in ys: a YYYY-MM-DD text, day and month padded to two digits, a
   two-digit year read as 20xx *)
DmyAsStated(ys) ==
  \A d \in DayTexts, s1 \in DateSeps, m \in MonthTexts, s2 \in DateSeps, y \in ys :
    DateText = DmyText(d, s1, m, s2, y) =>
      /\ IsIsoDate(ndOut)
      /\ ndOut = YearOf(y) \o <<"-">> \o PadStart2(m) \o <<"-">> \o PadStart2(d)

RestAsStated ==
  /\ DateText = T_Iso => ndOut = T_Iso
  /\ DateText = T_Today => ndOut = TodayStr
  /\ DateText = T_Tomorrow => ndOut = TomorrowStr
  /\ DateText = T_Yesterday => ndOut = YesterdayStr
  /\ DateText \in OtherDateTexts => ndOut = TodayStr

(* C20: normalizeDate returns a YYYY-MM-DD text unchanged; every text the
   day-month-year branch accepts comes back as YYYY-MM-DD with day and month
   zero-padded and a two-digit year read as 20xx; a text containing today,
   tomorrow or yesterday in any case gives that date; every other input, and
   an absent one, gives today's date *)
C20_NormalizeDate ==
  ndDone => (DmyAsStated(YearTexts) /\ RestAsStated)

(* The same with the three-digit years left out of the day-month-year
   branch *)
C20_TwoOrFourDigitYears ==
  ndDone => (DmyAsStated({y \in YearTexts : Len(y) # 3}) /\ RestAsStated)

--------------------------------------------------------------------------
(* SpecField: normalizeTime, normalizeGender and normalizeAadhaarNumber
   applied to every drawn input; normalizeAadhaarNumber is applied a second
   time to its own result *)

(* The result of a call: the text returned, or the TypeError of a String
   method called on a value that is not a string *)
Returned(text) == [threw |-> FALSE, s |-> text]
Threw == [threw |-> TRUE, s |-> <<>>]

(* A text bare and with white space around it *)
Padded(ts) == ts \cup {<<" ">> \o t \o <<" ">> : t \in ts}

HourTexts == {<<"0">>, <<"9">>, <<"0", "9">>, <<"1", "1">>, <<"1", "2">>, <<"1", "3">>}
MinuteTexts == {<<"3", "0">>, <<"0", "5">>}
PeriodTexts == {<<"a", "m">>, <<" ", "p", "m">>, <<"P", "M">>, <<" ", " ", "A", "m">>}

ClockText(h, m) == h \o <<":">> \o m

PlainTimeTexts == {ClockText(h, m) : h \in HourTexts, m \in MinuteTexts}

AmPmTimeTexts ==
  {ClockText(h, m) \o p : h \in HourTexts, m \in MinuteTexts, p \in PeriodTexts}

T_Now == <<"N", "o", "w">>
T_Current == <<"c", "u", "r", "r", "e", "n", "t", " ", "t", "i", "m", "e">>

OtherTimeTexts ==
  {<<>>, <<"9", ":", "5">>, <<"9", ":", "5", " ", "p", "m">>, <<"9", "3", "0">>,
   <<"9", ".", "3", "0">>, <<"1", "2", "3", ":", "3", "0">>, <<"x">>,
   <<"9", ":", "3", "0", " ", "x", "m">>, T_Now, T_Current}

TimeInputs ==
  {Undefined, Null, Num(930)}
    \cup {Str(t) : t \in Padded(PlainTimeTexts \cup AmPmTimeTexts \cup OtherTimeTexts)}

T_Transfemale == <<"T", "r", "a", "n", "s", "f", "e", "m", "a", "l", "e">>
T_M == <<"M">>
T_MALE == <<"M", "A", "L", "E">>

GenderTexts ==
  {T_Female, T_Transfemale, T_M, T_MALE, <<"m", "a", "l", "e">>,
   <<"f", "e", "m", "a", "l", "e">>, <<"F">>, <<"f", "e", " ", "m", "a", "l", "e">>,
   <<"m", "a", "l", "e", " ", "f", "e", "m", "a", "l", "e">>,
   <<"F", "E", "M", "A", "L", "E", ",", " ", "n", "o", "t", " ", "m", "a", "l", "e">>,
   <<"m", "a", "n">>, <<"x">>, <<>>}

GenderInputs == {Undefined, Null} \cup {Str(t) : t \in Padded(GenderTexts)}

T_12Digits == <<"1", "2", "3", "4", "5", "6", "7", "8", "9", "0", "1", "2">>
T_Grouped == <<"1", "2", "3", "4", " ", "5", "6", "7", "8", " ", "9", "0", "1", "2">>
T_11Digits == <<"1", "2", "3", "4", "5", "6", "7", "8", "9", "0", "1">>
T_13Digits == <<"1", "2", "3", "4", "5", "6", "7", "8", "9", "0", "1", "2", "3">>

AadhaarTexts ==
  {T_12Digits, T_Grouped, T_11Digits, T_13Digits,
   <<"1", "2", "3", "4", "-", "5", "6", "7", "8", "-", "9", "0", "1", "2">>,
   <<"n", "o", ".", "1", "2", "3", "4", "5", "6", "7", "8", "9", "0", "1", "2", "x">>,
   <<"1", "2", "a", "3">>, <<"a", "b", "c">>, <<"7">>, <<>>}

AadhaarInputs == {Undefined, Null} \cup {Str(t) : t \in Padded(AadhaarTexts)}

FieldInputs(kind) ==
  CASE kind = "time" -> TimeInputs
    [] kind = "gender" -> GenderInputs
    [] kind = "aadhaar" -> AadhaarInputs

FieldKinds == {"time", "gender", "aadhaar"}

FieldInit ==
  /\ nfKind \in FieldKinds
  /\ nfIn \in FieldInputs(nfKind)
  /\ nfOuts = <<>>
  /\ MergeIdle
  /\ AdmIdle
  /\ RecIdle
  /\ HostIdle
  /\ HoIdle /\ DsIdle /\ PfIdle /\ SaveIdle /\ DateIdle /\ OvIdle

FieldFrame ==
  UNCHANGED <<nfKind, nfIn, mergeVars, admVars, recVars, monVars, hostVars,
              hoVars, dsVars, pfVars, saveVars, dateVars, ovVars>>

TimeApply ==
  /\ nfKind = "time"
  /\ nfOuts = <<>>
  /\ nfOuts' = <<Returned(normalizeTime(nfIn))>>
  /\ FieldFrame

GenderApply ==
  /\ nfKind = "gender"
  /\ nfOuts = <<>>
  /\ nfOuts' = <<IF StringMethodThrows(nfIn) THEN Threw
                 ELSE Returned(normalizeGender(nfIn))>>
  /\ FieldFrame

(* normalizeAadhaarNumber applied to the input, then to its own result *)
AadhaarApply ==
  /\ nfKind = "aadhaar"
  /\ Len(nfOuts) < 2
  /\ \A i \in 1..Len(nfOuts) : ~nfOuts[i].threw
  /\ LET arg == IF nfOuts = <<>> THEN nfIn ELSE Str(nfOuts[1].s)
     IN nfOuts' = Append(nfOuts, IF StringMethodThrows(arg) THEN Threw
                                 ELSE Returned(normalizeAadhaarNumber(arg)))
  /\ FieldFrame

FieldNext ==
  \/ TimeApply
  \/ GenderApply
  \/ AadhaarApply

SpecField == FieldInit /\ [][FieldNext]_vars

(* The text of the input without the white space around it; none for an
   input that is not a text *)
FieldText == IF nfIn.t = "string" THEN Trim(nfIn.s) ELSE <<>>

(* The hour of the 24-hour clock for hour h of the 12-hour clock, after noon
   or before it *)
Hour24(h, pm) ==
  IF pm THEN (IF h = 12 THEN 12 ELSE h + 12)
  ELSE (IF h = 12 THEN 0 ELSE h)

IsPmText(p) == ToLower(Trim(p)) = <<"p", "m">>

(* A time of the 24-hour clock written HH:MM *)
IsClock24(t) ==
  /\ Len(t) = 5
  /\ t[3] = ":"
  /\ \A i \in {1, 2, 4, 5} : IsDigit(t[i])
  /\ DigitsToNat(SubSeq(t, 1, 2)) <= 23
  /\ DigitsToNat(SubSeq(t, 4, 5)) <= 59

(* C21: normalizeTime returns an H:MM or HH:MM text with the hour padded to
   two digits; converts an H:MM am|pm text to the 24-hour clock (9:30 pm is
   21:30, 12 am is hour 00, 12 pm stays 12), a time of the 24-hour clock
   whenever the hour is one of the 12-hour clock; gives the current time for
   a single-digit minute such as 9:5, for now/current and for every other
   input *)
C21_NormalizeTime ==
  (nfKind = "time" /\ nfOuts # <<>>) =>
    LET out == nfOuts[1].s
    IN /\ ~nfOuts[1].threw
       /\ \A h \in HourTexts, m \in MinuteTexts :
            FieldText = ClockText(h, m) =>
              /\ Len(out) = 5
              /\ out = (IF Len(h) = 1 THEN <<"0">> \o h ELSE h) \o <<":">> \o m
       /\ \A h \in HourTexts, m \in MinuteTexts, p \in PeriodTexts :
            FieldText = ClockText(h, m) \o p =>
              LET h24 == Hour24(DigitsToNat(h), IsPmText(p))
              IN /\ DigitsToNat(SubSeq(out, 1, Len(out) - 3)) = h24
                 /\ SubSeq(out, Len(out) - 2, Len(out)) = <<":">> \o m
                 /\ DigitsToNat(h) \in 0..12 => IsClock24(out)
       /\ FieldText = <<"9", ":", "3", "0", " ", "p", "m">>
            => out = <<"2", "1", ":", "3", "0">>
       /\ FieldText \in OtherTimeTexts => out = NowStr
       /\ nfIn.t # "string" => out = NowStr

C21_Witness ==
  /\ nfKind = "time"
  /\ nfIn = Str(<<"9", ":", "3", "0", " ", "p", "m">>)
  /\ nfOuts = <<Returned(<<"2", "1", ":", "3", "0">>)>>

T_male == <<"m", "a", "l", "e">>
T_other == <<"o", "t", "h", "e", "r">>

(* C22: normalizeGender gives female when the lower-cased input contains
   "female", else male when it contains "male", else other, also for a
   missing input; Female and Transfemale give female, M gives other, and no
   input containing "female" gives male *)
C22_NormalizeGender ==
  (nfKind = "gender" /\ nfOuts # <<>>) =>
    LET out == nfOuts[1].s
        lower == ToLower(FieldText)
    IN /\ ~nfOuts[1].threw
       /\ out = (IF Includes(lower, T_female) THEN T_female
                 ELSE IF Includes(lower, T_male) THEN T_male
                 ELSE T_other)
       /\ FieldText \in {T_Female, T_Transfemale} => out = T_female
       /\ FieldText = T_M => out = T_other
       /\ FieldText = T_MALE => out = T_male
       /\ nfIn.t # "string" => out = T_other

C22_Witness ==
  /\ nfKind = "gender"
  /\ nfIn = Str(T_Transfemale)
  /\ nfOuts = <<Returned(T_female)>>

(* The digits of a text, in their order *)
RECURSIVE DigitsOf(_)
DigitsOf(t) ==
  IF t = <<>> THEN <<>>
  ELSE (IF Head(t) \in {"0", "1", "2", "3", "4", "5", "6", "7", "8", "9"}
        THEN <<Head(t)>> ELSE <<>>) \o DigitsOf(Tail(t))

(* C23: normalizeAadhaarNumber removes every non-digit; twelve digits come
   back as three groups of four separated by single spaces, any other number
   of digits comes back ungrouped; no input raises an error, and the
   normalizer applied to its own result returns that result *)
C23_NormalizeAadhaar ==
  (nfKind = "aadhaar" /\ nfOuts # <<>>) =>
    LET out == nfOuts[1].s
        digits == DigitsOf(FieldText)
    IN /\ \A i \in 1..Len(nfOuts) : ~nfOuts[i].threw
       /\ DigitsOf(out) = digits
       /\ Len(digits) = 12 =>
            /\ Len(out) = 14
            /\ out[5] = " " /\ out[10] = " "
       /\ Len(digits) # 12 => out = digits
       /\ FieldText = T_12Digits => out = T_Grouped
       /\ FieldText = T_11Digits => out = T_11Digits
       /\ Len(nfOuts) = 2 => nfOuts[2].s = out

C23_Witness ==
  /\ nfKind = "aadhaar"
  /\ nfIn = Str(T_12Digits)
  /\ nfOuts = <<Returned(T_Grouped), Returned(T_Grouped)>>

==========================================================================
